---- MODULE Spec2Model ----
(***************************************************************************)
(* Line-following robot sketches of Lemirq/utrahacks.                      *)
(*                                                                         *)
(*   sketch_jan31a.ino      colour-only follower: history hysteresis,      *)
(*                          stepwise findLine, fork probe.  Its names are  *)
(*                          used unprefixed.                               *)
(*   line_follow_test.ino   the same follower with obstacle handling and   *)
(*                          the continuous slow sweep.  Prefix LFT_.       *)
(*   line_follower_robot.ino  threshold classifier, red path, obstacle     *)
(*                          avoidance, fork handler.  Prefix LFR_.         *)
(*                                                                         *)
(* A step of the model is the code a sketch runs from one sensor read up   *)
(* to the next one (or up to the end of the loop() cycle).  delay() and    *)
(* pulseIn() time-outs advance the clock; everything else takes no time.   *)
(***************************************************************************)
EXTENDS Integers, Sequences, FiniteSets, TLC

VARIABLES
  lastR, lastG, lastB,   \* last raw reading (diagnostics)
  lastColor,             \* label of the previous cycle (edge-triggered log)
  searchForwardMs,       \* adaptive forward advance after a failed search
  colorHistory,          \* circular buffer, 0..HISTORY_SIZE-1 -> Color
  historyIndex,          \* write cursor
  sinceHistory,          \* millis() - lastHistoryTime, saturated at MaxElapsed
  motors,                \* <<IN1, IN2, IN3, IN4>>
  enable,                \* <<ENA, ENB>> duty (255 = HIGH)
  pc,                    \* position of the sketch
  i,                     \* loop counter of findLine
  rightColor, leftColor, \* locals of handleFork
  obstacle,              \* local of handleObstacle: status of this cycle
  sweep,                 \* locals of slowSweep90 and its call site in findLine
  log,                   \* motor commands of the current cycle: <<command, ms held>>
  called,                \* what the switch of loop() selected in the current cycle
  samples,               \* readColor calls made by findLine or handleFork
  trail,                 \* <<label, called>> of the last TrailLen classifying cycles
  failedSearches,        \* failed findLine invocations since BLACK was last classified
  sensor,                \* readings the colour sensor can return on this track
  course,                \* <<echo, IR left, IR right>> the obstacle sensors can return
  budget,                \* loop() cycles still observed
  onRedPath,            \* line_follower_robot.ino: on the obstacle-course path
  written,               \* labels of the last HISTORY_SIZE addToHistory calls, oldest first
  navLogged,             \* the latest classifying cycle printed a [NAV] transition
  checks                 \* echoes avoidObstacle has checked in the present call

vars == <<lastR, lastG, lastB, lastColor, searchForwardMs, colorHistory,
          historyIndex, sinceHistory, motors, enable, pc, i, rightColor,
          leftColor, obstacle, sweep, log, called, samples, trail,
          failedSearches, sensor, course, onRedPath, budget,
          written, navLogged, checks>>

(***************************************************************************)
(* Bounds of the model.                                                    *)
(***************************************************************************)
MaxElapsed == 60      \* saturation of sinceHistory (any value >= HISTORY_INTERVAL)
MaxCycles == 3        \* cycles observed with the full sensor
MaxLossCycles == 9    \* cycles observed on the black-and-white track
MaxTestCycles == 2    \* cycles observed of line_follow_test
MaxDriftCycles == 5   \* cycles observed on the track with timed-out reads
MaxGridCycles == 1    \* cycles observed on each surface of the grid
MaxSidesteps == 3     \* depth of the recursion of avoidObstacle
MaxJointCycles == 1   \* cycles observed of each sketch when both are checked
MaxLastN == 10        \* largest window asked of countRecentBad
MaxFairCycles == 3    \* cycles observed when every cycle must come to its end
MaxRobotCycles == 1   \* cycles of loop() observed of line_follower_robot.ino
MaxGateCycles == 2    \* cycles of loop() observed for the history gate
TrailLen == 5         \* cycles remembered in trail

(***************************************************************************)
(* sketch_jan31a.ino : constants                                           *)
(***************************************************************************)
BLACK == 0
RED == 1
GREEN == 2
WHITE == 3
BLUE == 4
UNKNOWN == 5
Color == {BLACK, RED, GREEN, WHITE, BLUE, UNKNOWN}

READ_TIMEOUT == 50000

WHITE_R_MIN == 12
WHITE_R_MAX == 18
WHITE_G_MIN == 14
WHITE_G_MAX == 20
WHITE_B_MIN == 12
WHITE_B_MAX == 18
BLACK_R_MIN == 110
BLACK_R_MAX == 135
BLACK_G_MIN == 122
BLACK_G_MAX == 148
BLACK_B_MIN == 98
BLACK_B_MAX == 120
RED_R_MIN == 12
RED_R_MAX == 32
RED_G_MIN == 55
RED_G_MAX == 125
RED_B_MIN == 40
RED_B_MAX == 92
GREEN_R_MIN == 55
GREEN_R_MAX == 100
GREEN_G_MIN == 34
GREEN_G_MAX == 50
GREEN_B_MIN == 48
GREEN_B_MAX == 75
BLUE_R_MIN == 95
BLUE_R_MAX == 132
BLUE_G_MIN == 65
BLUE_G_MAX == 90
BLUE_B_MIN == 35
BLUE_B_MAX == 48

TURN_90_DELAY == 500
HISTORY_SIZE == 8
HISTORY_INTERVAL == 40
BAD_THRESHOLD == 4

(***************************************************************************)
(* Clock, motor pins and the command log                                   *)
(***************************************************************************)
\* millis() - lastHistoryTime after ms more milliseconds
Advance(e, ms) == IF e + ms > MaxElapsed THEN MaxElapsed ELSE e + ms

\* pin levels written by the four motor routines
Pins(c) ==
  CASE c = "moveForward" -> <<1, 0, 1, 0>>
    [] c = "turnLeft" -> <<0, 1, 1, 0>>
    [] c = "turnRight" -> <<1, 0, 0, 1>>
    [] c = "turnLeftSlow" -> <<0, 1, 1, 0>>
    [] c = "turnRightSlow" -> <<1, 0, 0, 1>>
    [] c = "moveBackward" -> <<0, 1, 0, 1>>
    [] OTHER -> <<0, 0, 0, 0>>

\* a motor routine followed by delay(ms)
Cmd(c, ms) == <<c, ms>>

\* delay(ms) with the motors left as the script's last command set them
Hold(script, ms) ==
  IF script = << >> THEN <<Cmd("delay", ms)>>
  ELSE [script EXCEPT ![Len(script)] = <<@[1], @[2] + ms>>]

RECURSIVE Duration(_)
Duration(script) ==
  IF script = << >> THEN 0 ELSE script[1][2] + Duration(Tail(script))

PinsAfter(script, before) ==
  IF script = << >> \/ script[Len(script)][1] = "delay" THEN before
  ELSE Pins(script[Len(script)][1])

\* mutant: the left turn is held for half the time of a quarter turn
turnLeftHalf ==
  <<Cmd("turnLeft", TURN_90_DELAY \div 2), Cmd("stopMotors", 0)>>

turnLeft90 == <<Cmd("turnLeft", TURN_90_DELAY), Cmd("stopMotors", 0)>>
turnRight90 == <<Cmd("turnRight", TURN_90_DELAY), Cmd("stopMotors", 0)>>

RECURSIVE Count(_, _)
Count(script, cs) ==
  IF script = << >> THEN 0
  ELSE (IF script[1][1] \in cs THEN 1 ELSE 0) + Count(Tail(script), cs)

(***************************************************************************)
(* Colour sensor and classifier                                            *)
(***************************************************************************)
\* pulseIn returns 0 after READ_TIMEOUT microseconds without a pulse
ReadMs(rd) ==
  (READ_TIMEOUT \div 1000) * Cardinality({k \in 1..3 : rd[k] = 0})

\* mutant: the lower end of the range is not tested
inRangeBelow(val, minVal, maxVal) == val <= maxVal

inRange(val, minVal, maxVal) == val >= minVal /\ val <= maxVal

\* mutant: the blue channel is not counted
getConfidenceRG(r, g, b, rMin, rMax, gMin, gMax, bMin, bMax) ==
  (IF inRange(r, rMin, rMax) THEN 1 ELSE 0)
  + (IF inRange(g, gMin, gMax) THEN 1 ELSE 0)

getConfidence(r, g, b, rMin, rMax, gMin, gMax, bMin, bMax) ==
  (IF inRange(r, rMin, rMax) THEN 1 ELSE 0)
  + (IF inRange(g, gMin, gMax) THEN 1 ELSE 0)
  + (IF inRange(b, bMin, bMax) THEN 1 ELSE 0)

confWhite(r, g, b) == getConfidence(r, g, b, WHITE_R_MIN, WHITE_R_MAX,
                        WHITE_G_MIN, WHITE_G_MAX, WHITE_B_MIN, WHITE_B_MAX)
confBlack(r, g, b) == getConfidence(r, g, b, BLACK_R_MIN, BLACK_R_MAX,
                        BLACK_G_MIN, BLACK_G_MAX, BLACK_B_MIN, BLACK_B_MAX)
confRed(r, g, b) == getConfidence(r, g, b, RED_R_MIN, RED_R_MAX,
                        RED_G_MIN, RED_G_MAX, RED_B_MIN, RED_B_MAX)
confGreen(r, g, b) == getConfidence(r, g, b, GREEN_R_MIN, GREEN_R_MAX,
                        GREEN_G_MIN, GREEN_G_MAX, GREEN_B_MIN, GREEN_B_MAX)
confBlue(r, g, b) == getConfidence(r, g, b, BLUE_R_MIN, BLUE_R_MAX,
                        BLUE_G_MIN, BLUE_G_MAX, BLUE_B_MIN, BLUE_B_MAX)

\* mutant: an equal confidence replaces the running best
BetterOrEqual(best, conf, c) ==
  IF conf >= best.bestConf THEN [bestConf |-> conf, bestColor |-> c] ELSE best

\* one "if (conf > bestConf) { bestConf = conf; bestColor = c; }"
Better(best, conf, c) ==
  IF conf > best.bestConf THEN [bestConf |-> conf, bestColor |-> c] ELSE best

\* mutant: the scan starts from a best confidence of 2
bestMatchOfThree(r, g, b) ==
  Better(Better(Better(Better(Better(
    [bestConf |-> 2, bestColor |-> UNKNOWN],
    confWhite(r, g, b), WHITE),
    confBlack(r, g, b), BLACK),
    confRed(r, g, b), RED),
    confGreen(r, g, b), GREEN),
    confBlue(r, g, b), BLUE)

\* mutant: BLACK is scanned last
bestMatchBlackLast(r, g, b) ==
  Better(Better(Better(Better(Better(
    [bestConf |-> 1, bestColor |-> UNKNOWN],
    confWhite(r, g, b), WHITE),
    confRed(r, g, b), RED),
    confGreen(r, g, b), GREEN),
    confBlue(r, g, b), BLUE),
    confBlack(r, g, b), BLACK)

\* mutant: the scan runs from BLUE back to WHITE
bestMatchReversed(r, g, b) ==
  Better(Better(Better(Better(Better(
    [bestConf |-> 1, bestColor |-> UNKNOWN],
    confBlue(r, g, b), BLUE),
    confGreen(r, g, b), GREEN),
    confRed(r, g, b), RED),
    confBlack(r, g, b), BLACK),
    confWhite(r, g, b), WHITE)

\* the strict-greater scan in the order WHITE, BLACK, RED, GREEN, BLUE
bestMatch(r, g, b) ==
  Better(Better(Better(Better(Better(
    [bestConf |-> 1, bestColor |-> UNKNOWN],
    confWhite(r, g, b), WHITE),
    confBlack(r, g, b), BLACK),
    confRed(r, g, b), RED),
    confGreen(r, g, b), GREEN),
    confBlue(r, g, b), BLUE)

\* the "handle ties" branch taken when the scan left UNKNOWN
tieBreak(r, g, b) ==
  IF confBlack(r, g, b) = 2 THEN BLACK
  ELSE IF confWhite(r, g, b) = 2 THEN WHITE
  ELSE IF confRed(r, g, b) = 2 THEN RED
  ELSE IF confGreen(r, g, b) = 2 THEN GREEN
  ELSE IF confBlue(r, g, b) = 2 THEN BLUE
  ELSE UNKNOWN

readColor(r, g, b) ==
  LET bestColor == bestMatch(r, g, b).bestColor
  IN IF bestColor = UNKNOWN THEN tieBreak(r, g, b) ELSE bestColor

\* mutant: the debug classifier scans from BLUE back to WHITE
readColorDebugReversed(r, g, b) ==
  LET bestColor == bestMatchReversed(r, g, b).bestColor
  IN IF bestColor = UNKNOWN THEN tieBreak(r, g, b) ELSE bestColor

readColorDebug(r, g, b) ==
  LET bestColor == bestMatch(r, g, b).bestColor
  IN IF bestColor = UNKNOWN THEN tieBreak(r, g, b) ELSE bestColor

\* readings at the calibration means of the five surfaces, and a read in
\* which all three channels time out
Readings == { <<15, 17, 15>>, <<122, 135, 109>>, <<22, 90, 66>>,
              <<78, 41, 62>>, <<114, 78, 41>>, <<0, 0, 0>> }
TrackReadings == { <<15, 17, 15>>, <<122, 135, 109>> }
\* the track of line_follow_test: ground, line, a branch marker, a checkpoint
TestReadings == { <<15, 17, 15>>, <<122, 135, 109>>, <<78, 41, 62>>,
                  <<114, 78, 41>> }

(***************************************************************************)
(* Colour history                                                          *)
(***************************************************************************)
\* mutant: the write cursor stays where it is
addToHistoryInPlace(h, idx, c) ==
  [colorHistory |-> [h EXCEPT ![idx] = c], historyIndex |-> idx]

addToHistory(h, idx, c) ==
  [colorHistory |-> [h EXCEPT ![idx] = c],
   historyIndex |-> (idx + 1) % HISTORY_SIZE]

\* mutant: a cycle of exactly 50 ms is too short for a write
historyDueLate(elapsed) == elapsed > HISTORY_INTERVAL + 10

\* mutant: the gate opens 60 ms after the previous write
historyDueSixty(elapsed) == elapsed >= 60

\* "if (now - lastHistoryTime >= HISTORY_INTERVAL)"
historyDue(elapsed) == elapsed >= HISTORY_INTERVAL

\* the labels written so far, cut to the HISTORY_SIZE most recent
Latest(w, c) ==
  LET all == Append(w, c)
  IN IF Len(all) > HISTORY_SIZE THEN Tail(all) ELSE all

\* mutant: the scan starts at the write cursor, not behind it
RECURSIVE countFromCursor(_, _, _, _)
countFromCursor(h, idx, lastN, k) ==
  IF k < lastN /\ k < HISTORY_SIZE
  THEN LET at == (idx - k + HISTORY_SIZE) % HISTORY_SIZE
       IN (IF h[at] = WHITE \/ h[at] = UNKNOWN THEN 1 ELSE 0)
          + countFromCursor(h, idx, lastN, k + 1)
  ELSE 0

RECURSIVE countFrom(_, _, _, _)
countFrom(h, idx, lastN, k) ==
  IF k < lastN /\ k < HISTORY_SIZE
  THEN LET at == (idx - 1 - k + HISTORY_SIZE) % HISTORY_SIZE
       IN (IF h[at] = WHITE \/ h[at] = UNKNOWN THEN 1 ELSE 0)
          + countFrom(h, idx, lastN, k + 1)
  ELSE 0

\* mutant: only WHITE counts as bad
countRecentWhite(h, idx, lastN) ==
  Cardinality({k \in 0..(lastN - 1) :
                 h[(idx - 1 - k + HISTORY_SIZE) % HISTORY_SIZE] = WHITE})

countRecentBad(h, idx, lastN) == countFrom(h, idx, lastN, 0)

\* mutant: three bad entries are enough
shouldSweepOfThree(h, idx) == countRecentBad(h, idx, 3) >= 3

\* mutant: one bad label is enough
shouldSweepAtOnce(h, idx) == countRecentBad(h, idx, 1) >= 1

shouldSweep(h, idx) == countRecentBad(h, idx, BAD_THRESHOLD) >= BAD_THRESHOLD


(***************************************************************************)
(* sketch_jan31a.ino : state after setup()                                 *)
(***************************************************************************)
\* no slowSweep90 is running
NoSweep == [goLeft |-> FALSE, durationMs |-> 0, elapsed |-> 0, call |-> 0]

\* echo pulse widths in microseconds (0: no echo)
Echoes == {0, 500, 2000}

\* every answer of the ultrasonic sensor and the two IR pins
Course == Echoes \X BOOLEAN \X BOOLEAN

setupOn(readings, probes, cycles) ==
  /\ lastR = 0 /\ lastG = 0 /\ lastB = 0
  /\ lastColor = UNKNOWN
  /\ searchForwardMs = 150
  /\ colorHistory = [k \in 0..(HISTORY_SIZE - 1) |-> UNKNOWN]
  /\ historyIndex = 0
  /\ sinceHistory = Advance(0, 2000)      \* lastHistoryTime = 0, then delay(2000)
  /\ motors = Pins("stopMotors")
  /\ enable = <<255, 255>>
  /\ i = 0
  /\ rightColor = UNKNOWN /\ leftColor = UNKNOWN
  /\ obstacle = 0
  /\ sweep = NoSweep
  /\ log = << >>
  /\ called = "none"
  /\ samples = 0
  /\ trail = << >>
  /\ failedSearches = 0
  /\ sensor = readings
  /\ course = probes
  /\ onRedPath = FALSE
  /\ written = << >>
  /\ navLogged = FALSE
  /\ checks = << >>
  /\ budget = cycles

\* power-up on a course where the obstacle sensors can return anything
setup(readings, cycles) == setupOn(readings, Course, cycles)

(***************************************************************************)
(* Shared step helpers                                                     *)
(***************************************************************************)
\* the script appended to the cycle's log; a leading delay extends the hold
\* of the command already in effect
Extend(done, script) ==
  IF script # << >> /\ script[1][1] = "delay"
  THEN Hold(done, script[1][2]) \o Tail(script)
  ELSE done \o script

\* run a script of motor commands and delays starting since ms after the
\* last history write
Run(done, since, script) ==
  /\ log' = Extend(done, script)
  /\ motors' = PinsAfter(script, motors)
  /\ sinceHistory' = Advance(since, Duration(script))

\* one more cycle observed (a negative budget never runs out)
Spend(b) == IF b > 0 THEN b - 1 ELSE b

\* a reading is taken: readColor stores the raw channels
Sample(rd) == lastR' = rd[1] /\ lastG' = rd[2] /\ lastB' = rd[3]

Remember(t, e) ==
  LET all == Append(t, e)
  IN IF Len(all) > TrailLen THEN Tail(all) ELSE all

\* one rotation pulse of findLine: turn, delay(80), stopMotors
pulse(c) == <<Cmd(c, 80), Cmd("stopMotors", 0)>>

\* mutant: the step is doubled
growBy100(ms) == IF ms < 500 THEN ms + 100 ELSE ms

\* mutant: the cap is tested after the increment is decided
growUncapped(ms) == IF ms <= 500 THEN ms + 50 ELSE ms

\* "if (searchForwardMs < 500) searchForwardMs += 50"
grow(ms) == IF ms < 500 THEN ms + 50 ELSE ms

(***************************************************************************)
(* sketch_jan31a.ino : loop()                                              *)
(***************************************************************************)
\* mutant: the first label after power-up is not a transition
changedFromKnown(current, last) == current # last /\ last # UNKNOWN

\* "if (current != lastColor)"
changed(current, last) == current # last

\* mutant: only RED is a fork marker
DispatchRedOnly(current, lost) ==
  CASE current = BLACK -> "onTrack"
    [] current = RED -> "handleFork"
    [] current = BLUE -> "checkpoint"
    [] OTHER -> IF lost THEN "findLine" ELSE "noise"

\* mutant: the checkpoint marker is driven over
DispatchNoDwell(current, lost) ==
  CASE current = BLACK \/ current = BLUE -> "onTrack"
    [] current = RED \/ current = GREEN -> "handleFork"
    [] OTHER -> IF lost THEN "findLine" ELSE "noise"

\* mutant: a checkpoint is dwelt on only when the label has just changed
DispatchOnChange(current, lost) ==
  CASE current = BLACK -> "onTrack"
    [] current = RED \/ current = GREEN -> "handleFork"
    [] current = BLUE -> IF lastColor = BLUE THEN "onTrack" ELSE "checkpoint"
    [] OTHER -> IF lost THEN "findLine" ELSE "noise"

\* the switch of loop(); lost is shouldSweep()
Dispatch(current, lost) ==
  CASE current = BLACK -> "onTrack"
    [] current = RED \/ current = GREEN -> "handleFork"
    [] current = BLUE -> "checkpoint"
    [] OTHER -> IF lost THEN "findLine" ELSE "noise"

loop(rd) ==
  LET current == readColor(rd[1], rd[2], rd[3])
      now == Advance(sinceHistory, ReadMs(rd))
      due == historyDue(now)
      hist == IF due THEN addToHistory(colorHistory, historyIndex, current)
              ELSE [colorHistory |-> colorHistory, historyIndex |-> historyIndex]
      since == IF due THEN 0 ELSE now
      route == Dispatch(current, shouldSweep(hist.colorHistory, hist.historyIndex))
  IN /\ pc = "loop" /\ budget # 0
     /\ budget' = Spend(budget)
     /\ Sample(rd)
     /\ colorHistory' = hist.colorHistory
     /\ historyIndex' = hist.historyIndex
     /\ written' = IF due THEN Latest(written, current) ELSE written
     /\ navLogged' = changed(current, lastColor)
     /\ UNCHANGED checks
     /\ lastColor' = IF changed(current, lastColor) THEN current ELSE lastColor
     /\ called' = route
     /\ trail' = Remember(trail, <<current, route>>)
     /\ samples' = 0
     /\ i' = 0
     /\ UNCHANGED <<enable, rightColor, leftColor, obstacle, sweep, sensor, course, onRedPath>>
     /\ CASE route = "onTrack" ->
               /\ Run(<< >>, since, Hold(<<Cmd("moveForward", 0)>>, 50))
               /\ searchForwardMs' = 150
               /\ failedSearches' = 0
               /\ pc' = "loop"
          [] route = "handleFork" ->
               \* handleFork up to the first readColorDebug
               /\ Run(<< >>, since, <<Cmd("stopMotors", 100)>> \o turnRight90)
               /\ UNCHANGED <<searchForwardMs, failedSearches>>
               /\ pc' = "handleFork_right"
          [] route = "checkpoint" ->
               /\ Run(<< >>, since, Hold(<<Cmd("stopMotors", 1000)>>, 50))
               /\ UNCHANGED <<searchForwardMs, failedSearches>>
               /\ pc' = "loop"
          [] route = "findLine" ->
               \* findLine up to the first readColor
               /\ Run(<< >>, since, <<Cmd("stopMotors", 0)>> \o pulse("turnRight"))
               /\ UNCHANGED <<searchForwardMs, failedSearches>>
               /\ pc' = "findLine_right"
          [] OTHER ->
               /\ Run(<< >>, since, Hold(<<Cmd("moveForward", 0)>>, 50))
               /\ UNCHANGED <<searchForwardMs, failedSearches>>
               /\ pc' = "loop"

(***************************************************************************)
(* sketch_jan31a.ino : findLine()                                          *)
(***************************************************************************)
\* mutant: the adaptive duration grows although the line was found
findLine_foundGrown(rd) ==
  /\ Run(log, Advance(sinceHistory, ReadMs(rd)),
         Hold(<<Cmd("moveForward", 250)>>, 50))
  /\ searchForwardMs' = grow(searchForwardMs)
  /\ failedSearches' = 0
  /\ pc' = "loop"
  /\ i' = i

\* BLACK sampled: advance, reset the adaptive duration, return to loop()
findLine_found(rd) ==
  /\ Run(log, Advance(sinceHistory, ReadMs(rd)),
         Hold(<<Cmd("moveForward", 250)>>, 50))
  /\ searchForwardMs' = 150
  /\ failedSearches' = 0
  /\ pc' = "loop"
  /\ i' = i

\* the sample that follows a right pulse
findLine_right(rd) ==
  /\ pc = "findLine_right"
  /\ Sample(rd)
  /\ samples' = samples + 1
  /\ UNCHANGED <<lastColor, colorHistory, historyIndex, enable, rightColor,
                 leftColor, obstacle, sweep, called, trail, sensor, course, onRedPath, written, navLogged, checks, budget>>
  /\ IF readColor(rd[1], rd[2], rd[3]) = BLACK
     THEN findLine_found(rd)
     ELSE /\ UNCHANGED <<searchForwardMs, failedSearches>>
          /\ IF i + 1 < 5
             THEN /\ i' = i + 1
                  /\ pc' = "findLine_right"
                  /\ Run(log, Advance(sinceHistory, ReadMs(rd)), pulse("turnRight"))
             ELSE /\ i' = 0
                  /\ pc' = "findLine_left"
                  /\ Run(log, Advance(sinceHistory, ReadMs(rd)), pulse("turnLeft"))

\* mutant: one right pulse for every left pulse
recentreByLeft == [k \in 1..10 |-> Cmd("turnRight", 80)]

\* mutant: a single pulse back to the right
recentreOnce == <<Cmd("turnRight", 80)>>

\* "Return to center": turnRight, delay(80), five times
recentre == [k \in 1..5 |-> Cmd("turnRight", 80)]

\* nothing found: return to centre, advance by the adaptive duration, grow it
findLine_center(rd) ==
  /\ Run(log, Advance(sinceHistory, ReadMs(rd)),
         Hold(recentre
              \o <<Cmd("stopMotors", 0), Cmd("moveForward", searchForwardMs),
                   Cmd("stopMotors", 0)>>, 50))
  /\ searchForwardMs' = grow(searchForwardMs)
  /\ failedSearches' = failedSearches + 1
  /\ pc' = "loop"
  /\ i' = 0

\* the sample that follows a left pulse
findLine_left(rd) ==
  /\ pc = "findLine_left"
  /\ Sample(rd)
  /\ samples' = samples + 1
  /\ UNCHANGED <<lastColor, colorHistory, historyIndex, enable, rightColor,
                 leftColor, obstacle, sweep, called, trail, sensor, course, onRedPath, written, navLogged, checks, budget>>
  /\ IF readColor(rd[1], rd[2], rd[3]) = BLACK
     THEN findLine_found(rd)
     ELSE IF i + 1 < 10
     THEN /\ i' = i + 1
          /\ pc' = "findLine_left"
          /\ Run(log, Advance(sinceHistory, ReadMs(rd)), pulse("turnLeft"))
          /\ UNCHANGED <<searchForwardMs, failedSearches>>
     ELSE findLine_center(rd)

(***************************************************************************)
(* sketch_jan31a.ino : handleFork()                                        *)
(***************************************************************************)
\* mutant: RED on the left wins before the labels are compared
forkTurnRedFirst(left, right) ==
  IF left = RED THEN "turnLeft" ELSE "turnRight"

\* the decision table: the 90-degree turn taken
forkTurn(left, right) ==
  IF left = right THEN "turnRight"
  ELSE IF left = RED /\ right # RED THEN "turnLeft"
  ELSE IF right = RED /\ left # RED THEN "turnRight"
  ELSE "turnRight"

\* the right-side sample, then back to centre and on to the left side
handleFork_right(rd) ==
  /\ pc = "handleFork_right"
  /\ Sample(rd)
  /\ rightColor' = readColorDebug(rd[1], rd[2], rd[3])
  /\ Run(log, Advance(sinceHistory, ReadMs(rd)), turnLeft90 \o turnLeft90)
  /\ samples' = samples + 1
  /\ pc' = "handleFork_left"
  /\ UNCHANGED <<lastColor, searchForwardMs, colorHistory, historyIndex, enable,
                 i, leftColor, obstacle, sweep, called, trail,
                 failedSearches, sensor, course, onRedPath, written, navLogged, checks, budget>>

\* the left-side sample, back to centre, the decision and the advance
handleFork_left(rd) ==
  LET left == readColorDebug(rd[1], rd[2], rd[3])
  IN /\ pc = "handleFork_left"
     /\ Sample(rd)
     /\ leftColor' = left
     /\ Run(log, Advance(sinceHistory, ReadMs(rd)),
            turnRight90
            \o <<Cmd(forkTurn(left, rightColor), TURN_90_DELAY), Cmd("stopMotors", 0)>>
            \o Hold(<<Cmd("moveForward", 200)>>, 50))
     /\ samples' = samples + 1
     /\ pc' = "loop"
     /\ UNCHANGED <<lastColor, searchForwardMs, colorHistory, historyIndex,
                    enable, i, rightColor, obstacle, sweep, called,
                    trail, failedSearches, sensor, course, onRedPath, written, navLogged, checks, budget>>

(***************************************************************************)
(* Specifications of sketch_jan31a.ino                                     *)
(***************************************************************************)
InitNav == /\ pc = "loop" /\ setup(Readings, MaxCycles)
InitLoss == /\ pc = "loop" /\ setup(TrackReadings, MaxLossCycles)

Search ==
  \/ \E rd \in sensor : findLine_right(rd)
  \/ \E rd \in sensor : findLine_left(rd)

Fork ==
  \/ \E rd \in sensor : handleFork_right(rd)
  \/ \E rd \in sensor : handleFork_left(rd)

NextNav ==
  \/ \E rd \in sensor : loop(rd)
  \/ Search
  \/ Fork

NextLoss ==
  \/ \E rd \in sensor : loop(rd)
  \/ Search

\* every label on the track, a few cycles from power-up
SpecNav == InitNav /\ [][NextNav]_vars
\* a black line on white ground, long enough for the adaptive duration to cap
SpecLoss == InitLoss /\ [][NextLoss]_vars


(***************************************************************************)
(* line_follow_test.ino : obstacle detection                               *)
(***************************************************************************)
ULTRASONIC_TIMEOUT == 30000
OBSTACLE_DIST_CM == 15
IR_ACTIVE_LOW == TRUE

\* pulseIn(ECHO) waits ULTRASONIC_TIMEOUT microseconds when no echo comes
EchoMs(duration) == IF duration = 0 THEN ULTRASONIC_TIMEOUT \div 1000 ELSE 0

\* duration * 0.034 / 2, truncated to long; -1 if no echo
LFT_getDistance(duration) ==
  IF duration = 0 THEN 0 - 1 ELSE (duration * 34) \div 2000

obstacleLeft(reading) == IF IR_ACTIVE_LOW THEN ~reading ELSE reading
obstacleRight(reading) == IF IR_ACTIVE_LOW THEN ~reading ELSE reading

\* mutant: while no echo comes back the front counts as blocked
obstacleFrontClosed(duration) ==
  LET dist == LFT_getDistance(duration)
  IN IF dist < 0 THEN TRUE ELSE dist < OBSTACLE_DIST_CM

obstacleFront(duration) ==
  LET dist == LFT_getDistance(duration)
  IN IF dist < 0 THEN FALSE ELSE dist < OBSTACLE_DIST_CM

\* mutant: a blocked side is reported before the front is looked at
checkObstaclesSidesFirst(front, left, right) ==
  IF left /\ right THEN 3
  ELSE IF left THEN 1
  ELSE IF right THEN 2
  ELSE IF front THEN 3
  ELSE 0

\* 0 = clear, 1 = left, 2 = right, 3 = both/front
checkObstacles(front, left, right) ==
  IF front THEN 3
  ELSE IF left /\ right THEN 3
  ELSE IF left THEN 1
  ELSE IF right THEN 2
  ELSE 0

\* mutant: only a blocked front is handled
handledFrontOnly(status) == status = 3

\* the value handleObstacle returns for a status
handled(status) == status # 0

\* mutant: the robot veers towards the blocked side
avoidTowards(status) ==
  <<Cmd("stopMotors", 0)>>
  \o (CASE status = 1 -> <<Cmd("turnLeft", 200)>>
        [] status = 2 -> <<Cmd("turnRight", 200)>>
        [] OTHER -> <<Cmd("moveBackward", 300), Cmd("stopMotors", 0),
                      Cmd("turnRight", 400)>>)
  \o <<Cmd("stopMotors", 0)>>

\* the commands of handleObstacle for a status other than 0
avoid(status) ==
  <<Cmd("stopMotors", 0)>>
  \o (CASE status = 1 -> <<Cmd("turnRight", 200)>>
        [] status = 2 -> <<Cmd("turnLeft", 200)>>
        [] OTHER -> <<Cmd("moveBackward", 300), Cmd("stopMotors", 0),
                      Cmd("turnRight", 400)>>)
  \o <<Cmd("stopMotors", 0)>>

(***************************************************************************)
(* line_follow_test.ino : loop()                                           *)
(***************************************************************************)
LFT_Dispatch(current, lost) ==
  CASE current = BLACK -> "onTrack"
    [] current = RED \/ current = GREEN -> "proceed"
    [] current = BLUE -> "checkpoint"
    [] OTHER -> IF lost THEN "findLine" ELSE "noise"

\* mutant: only the line itself ends a sweep
isBlack(c) == c = BLACK

isValidColor(c) == c = BLACK \/ c = RED \/ c = GREEN \/ c = BLUE

\* mutant: the enable pins are left at the sweep PWM
restoreSweepSpeed == <<80, 80>>

\* restoreFullSpeed: digitalWrite(ENA, HIGH), digitalWrite(ENB, HIGH)
restoreFullSpeed == <<255, 255>>

\* slowSweep90 up to its first readColor: the slow turn is started
startSweep(goLeft, durationMs, call) ==
  /\ sweep' = [goLeft |-> goLeft, durationMs |-> durationMs, elapsed |-> 0,
               call |-> call]
  /\ enable' = <<80, 80>>

sweepTurn(goLeft) == IF goLeft THEN "turnLeftSlow" ELSE "turnRightSlow"

LFT_loop(echo, irLeft, irRight, rd) ==
  LET status == checkObstacles(obstacleFront(echo), obstacleLeft(irLeft),
                               obstacleRight(irRight))
      current == readColor(rd[1], rd[2], rd[3])
      now == Advance(Advance(sinceHistory, EchoMs(echo)), ReadMs(rd))
      due == historyDue(now)
      hist == IF due THEN addToHistory(colorHistory, historyIndex, current)
              ELSE [colorHistory |-> colorHistory, historyIndex |-> historyIndex]
      since == IF due THEN 0 ELSE now
      route == LFT_Dispatch(current,
                            shouldSweep(hist.colorHistory, hist.historyIndex))
  IN /\ pc = "LFT_loop" /\ budget # 0
     /\ budget' = Spend(budget)
     /\ obstacle' = status
     /\ UNCHANGED <<rightColor, leftColor, sensor, course, onRedPath, i>>
     /\ IF handled(status)
        THEN \* handleObstacle returned true: loop() returns at once
             /\ Run(<< >>, Advance(sinceHistory, EchoMs(echo)), avoid(status))
             /\ called' = "handleObstacle"
             /\ pc' = "LFT_loop"
             /\ UNCHANGED <<lastR, lastG, lastB, lastColor, searchForwardMs,
                            colorHistory, historyIndex, enable, sweep, samples,
                            trail, failedSearches, written, navLogged, checks>>
        ELSE /\ Sample(rd)
             /\ colorHistory' = hist.colorHistory
             /\ historyIndex' = hist.historyIndex
             /\ written' = IF due THEN Latest(written, current) ELSE written
             /\ navLogged' = changed(current, lastColor)
             /\ UNCHANGED checks
             /\ lastColor' = IF changed(current, lastColor) THEN current ELSE lastColor
             /\ called' = route
             /\ trail' = Remember(trail, <<current, route>>)
             /\ samples' = 0
             /\ CASE route = "onTrack" ->
                       /\ Run(<< >>, since, Hold(<<Cmd("moveForward", 0)>>, 50))
                       /\ searchForwardMs' = 150
                       /\ failedSearches' = 0
                       /\ pc' = "LFT_loop"
                       /\ UNCHANGED <<enable, sweep>>
                  [] route = "checkpoint" ->
                       /\ Run(<< >>, since, Hold(<<Cmd("stopMotors", 1000)>>, 50))
                       /\ UNCHANGED <<searchForwardMs, failedSearches, enable, sweep>>
                       /\ pc' = "LFT_loop"
                  [] route = "findLine" ->
                       \* findLine up to the first readColor of the left sweep
                       /\ Run(<< >>, since,
                              <<Cmd("stopMotors", 0), Cmd(sweepTurn(TRUE), 0)>>)
                       /\ startSweep(TRUE, 1200, 1)
                       /\ UNCHANGED <<searchForwardMs, failedSearches>>
                       /\ pc' = "LFT_slowSweep90"
                  [] OTHER ->
                       \* "proceed" (RED, GREEN) and "noise": moveForward
                       /\ Run(<< >>, since, Hold(<<Cmd("moveForward", 0)>>, 50))
                       /\ UNCHANGED <<searchForwardMs, failedSearches, enable, sweep>>
                       /\ pc' = "LFT_loop"

(***************************************************************************)
(* line_follow_test.ino : slowSweep90() and findLine()                     *)
(***************************************************************************)
\* one pass of the while loop of slowSweep90, and what findLine does when
\* the sweep returns
\* mutant: the sweep runs one check past its duration
sweepingPast(elapsed, durationMs) == elapsed <= durationMs

\* "while (millis() - start < durationMs)"
sweeping(elapsed, durationMs) == elapsed < durationMs

LFT_slowSweep90(rd) ==
  LET c == readColor(rd[1], rd[2], rd[3])
      read == Cmd("delay", ReadMs(rd))
      wait == Cmd("delay", ReadMs(rd) + 10)
      elapsed == sweep.elapsed + ReadMs(rd) + 10
      stop == <<Cmd("stopMotors", 0)>>
  IN /\ pc = "LFT_slowSweep90"
     /\ Sample(rd)
     /\ samples' = samples + 1
     /\ UNCHANGED <<lastColor, colorHistory, historyIndex, i, rightColor,
                    leftColor, obstacle, called, trail, sensor, course, onRedPath, written, navLogged, checks, budget>>
     /\ IF isValidColor(c)
        THEN \* return true: findLine advances and returns
             /\ Run(log, sinceHistory,
                    <<read>> \o stop
                    \o Hold(<<Cmd("moveForward",
                                  IF sweep.call = 3 THEN 200 ELSE 150)>>, 50))
             /\ enable' = restoreFullSpeed
             /\ sweep' = NoSweep
             /\ searchForwardMs' = searchForwardMs
             /\ failedSearches' = IF c = BLACK THEN 0 ELSE failedSearches
             /\ pc' = "LFT_loop"
        ELSE IF sweeping(elapsed, sweep.durationMs)
        THEN \* delay(checkIntervalMs) and the next pass
             /\ Run(log, sinceHistory, <<wait>>)
             /\ sweep' = [sweep EXCEPT !.elapsed = elapsed]
             /\ UNCHANGED <<enable, searchForwardMs, failedSearches, pc>>
        ELSE IF sweep.call < 3
        THEN \* return false: findLine starts its next sweep
             /\ Run(log, sinceHistory,
                    <<wait>> \o stop
                    \o <<Cmd(sweepTurn(sweep.call = 2), 0)>>)
             /\ startSweep(sweep.call = 2,
                           IF sweep.call = 1 THEN 1200 * 2 ELSE 1200,
                           sweep.call + 1)
             /\ UNCHANGED <<searchForwardMs, failedSearches, pc>>
        ELSE \* nothing found: fixed advance, then back to loop()
             /\ Run(log, sinceHistory,
                    <<wait>> \o stop \o Hold(<<Cmd("moveForward", 200)>>, 50))
             /\ enable' = restoreFullSpeed
             /\ sweep' = NoSweep
             /\ searchForwardMs' = searchForwardMs
             /\ failedSearches' = failedSearches + 1
             /\ pc' = "LFT_loop"

InitTest == /\ pc = "LFT_loop" /\ setup(TestReadings, MaxTestCycles)

\* the colour sensor is read only in a cycle that handleObstacle lets through
Read(echo, irLeft, irRight) ==
  IF handled(checkObstacles(obstacleFront(echo), obstacleLeft(irLeft),
                            obstacleRight(irRight)))
  THEN {<<lastR, lastG, lastB>>}
  ELSE sensor

NextTest ==
  \/ \E probe \in course :
       \E rd \in Read(probe[1], probe[2], probe[3]) :
         LFT_loop(probe[1], probe[2], probe[3], rd)
  \/ \E rd \in sensor : LFT_slowSweep90(rd)

\* line_follow_test.ino from power-up
SpecTest == InitTest /\ [][NextTest]_vars

(***************************************************************************)
(* line_follower_robot.ino : classifier and handleFork()                   *)
(***************************************************************************)
LFR_WHITE_R_MAX == 25
LFR_WHITE_G_MAX == 25
LFR_WHITE_B_MAX == 10
LFR_BLACK_R_MIN == 100
LFR_BLACK_G_MIN == 140
LFR_BLACK_B_MIN == 35
LFR_RED_R_MIN == 20
LFR_RED_R_MAX == 45
LFR_RED_G_MIN == 90
LFR_GREEN_R_MIN == 65
LFR_GREEN_R_MAX == 100
LFR_GREEN_G_MIN == 30
LFR_GREEN_G_MAX == 55
LFR_BLUE_R_MIN == 35
LFR_BLUE_R_MAX == 65
LFR_BLUE_G_MIN == 30
LFR_BLUE_G_MAX == 55
LFR_BLUE_B_MAX == 15
MOTOR_SPEED_DELAY == 10

\* the threshold cascade: the first rule that matches wins
LFR_readColor(r, g, b) ==
  IF r < LFR_WHITE_R_MAX /\ g < LFR_WHITE_G_MAX /\ b < LFR_WHITE_B_MAX THEN WHITE
  ELSE IF r > LFR_BLACK_R_MIN /\ g > LFR_BLACK_G_MIN /\ b > LFR_BLACK_B_MIN THEN BLACK
  ELSE IF r >= LFR_RED_R_MIN /\ r <= LFR_RED_R_MAX /\ g >= LFR_RED_G_MIN THEN RED
  ELSE IF /\ r >= LFR_GREEN_R_MIN /\ r <= LFR_GREEN_R_MAX
          /\ g >= LFR_GREEN_G_MIN /\ g <= LFR_GREEN_G_MAX THEN GREEN
  ELSE IF /\ r >= LFR_BLUE_R_MIN /\ r <= LFR_BLUE_R_MAX
          /\ g >= LFR_BLUE_G_MIN /\ g <= LFR_BLUE_G_MAX
          /\ b <= LFR_BLUE_B_MAX THEN BLUE
  ELSE UNKNOWN

\* the calibration means of line_follower_robot.ino and one reading off them
LFR_Readings ==
  {<<17, 18, 5>>, <<130, 160, 44>>, <<30, 110, 20>>, <<80, 40, 18>>,
   <<45, 40, 11>>, <<60, 70, 30>>}

LFR_turnRight90 ==
  <<Cmd("turnRight", TURN_90_DELAY), Cmd("stopMotors", MOTOR_SPEED_DELAY)>>
LFR_turnLeft90 ==
  <<Cmd("turnLeft", TURN_90_DELAY), Cmd("stopMotors", MOTOR_SPEED_DELAY)>>

\* the decision of handleFork: the turn taken and whether onRedPath is set
LFR_forkTurn(left, right) ==
  IF left = right THEN [turn |-> LFR_turnRight90, red |-> FALSE]
  ELSE IF left = RED /\ right # RED THEN [turn |-> LFR_turnLeft90, red |-> TRUE]
  ELSE IF right = RED /\ left # RED THEN [turn |-> LFR_turnRight90, red |-> TRUE]
  ELSE [turn |-> LFR_turnRight90, red |-> FALSE]

\* after setup(): motors stopped, onRedPath false; the variables of the other
\* sketches rest at their power-up values
LFR_setup(readings) == setup(readings, 0)

\* handleFork up to the first readColor
LFR_handleFork ==
  /\ pc = "LFR_handleFork"
  /\ Run(<< >>, sinceHistory, <<Cmd("stopMotors", 100)>> \o LFR_turnRight90)
  /\ called' = "handleFork"
  /\ pc' = "LFR_handleFork_right"
  /\ UNCHANGED <<lastR, lastG, lastB, lastColor, searchForwardMs, colorHistory,
                 historyIndex, enable, i, rightColor, leftColor, obstacle,
                 sweep, samples, trail, failedSearches, sensor, course, onRedPath, written, navLogged, checks,
                 budget>>

\* the right-side sample, then back to centre and on to the left side
LFR_handleFork_right(rd) ==
  /\ pc = "LFR_handleFork_right"
  /\ rightColor' = LFR_readColor(rd[1], rd[2], rd[3])
  /\ Run(log, Advance(sinceHistory, ReadMs(rd)), LFR_turnLeft90 \o LFR_turnLeft90)
  /\ samples' = samples + 1
  /\ pc' = "LFR_handleFork_left"
  /\ UNCHANGED <<lastR, lastG, lastB, lastColor, searchForwardMs, colorHistory,
                 historyIndex, enable, i, leftColor, obstacle, sweep, called,
                 trail, failedSearches, sensor, course, onRedPath, written, navLogged, checks, budget>>

\* the left-side sample, back to centre, the decision and moveForward
LFR_handleFork_left(rd) ==
  LET left == LFR_readColor(rd[1], rd[2], rd[3])
      taken == LFR_forkTurn(left, rightColor)
  IN /\ pc = "LFR_handleFork_left"
     /\ leftColor' = left
     /\ Run(log, Advance(sinceHistory, ReadMs(rd)),
            LFR_turnRight90 \o taken.turn \o <<Cmd("moveForward", 0)>>)
     /\ onRedPath' = (onRedPath \/ taken.red)
     /\ samples' = samples + 1
     /\ pc' = "LFR_return"
     /\ UNCHANGED <<lastR, lastG, lastB, lastColor, searchForwardMs,
                    colorHistory, historyIndex, enable, i, rightColor, obstacle,
                    sweep, called, trail, failedSearches, sensor,
                    course, budget, written, navLogged, checks>>

LFR_Fork ==
  \/ LFR_handleFork
  \/ \E rd \in sensor : LFR_handleFork_right(rd)
  \/ \E rd \in sensor : LFR_handleFork_left(rd)

(***************************************************************************)
(* line_follower_robot.ino : ultrasonic sensor and avoidObstacle()         *)
(***************************************************************************)
MOVE_UNIT_DELAY == 300
LFR_OBSTACLE_THRESHOLD == 15
LFR_ULTRASONIC_TIMEOUT == 30000

LFR_EchoMs(duration) ==
  IF duration = 0 THEN LFR_ULTRASONIC_TIMEOUT \div 1000 ELSE 0

\* duration * 0.034 / 2, truncated to long; 999 if no echo
LFR_getDistance(duration) ==
  IF duration = 0 THEN 999 ELSE (duration * 34) \div 2000

\* variant: anything nearer than 40 cm counts as an obstacle
isObstacleDetectedFar(duration) ==
  LET distance == LFR_getDistance(duration)
  IN distance > 0 /\ distance < 40

isObstacleDetected(duration) ==
  LET distance == LFR_getDistance(duration)
  IN distance > 0 /\ distance < LFR_OBSTACLE_THRESHOLD

moveForwardUnit ==
  <<Cmd("moveForward", MOVE_UNIT_DELAY), Cmd("stopMotors", MOTOR_SPEED_DELAY)>>

\* steps 1 to 3: right 90, forward one unit, left 90
sidestep == LFR_turnRight90 \o moveForwardUnit \o LFR_turnLeft90

\* step 5 on: forward, left 90, forward, right 90
returnToPath ==
  moveForwardUnit \o LFR_turnLeft90 \o moveForwardUnit \o LFR_turnRight90

\* avoidObstacle up to its first isObstacleDetected
LFR_avoidObstacle ==
  /\ pc = "LFR_avoidObstacle"
  /\ Run(<< >>, sinceHistory, sidestep)
  /\ called' = "avoidObstacle"
  /\ checks' = << >>
  /\ pc' = "LFR_avoid_check"
  /\ UNCHANGED <<lastR, lastG, lastB, lastColor, searchForwardMs, colorHistory,
                 historyIndex, enable, i, rightColor, leftColor, obstacle,
                 sweep, samples, trail, failedSearches, sensor, course,
                 onRedPath, written, navLogged, budget>>

\* step 4: still blocked, the recursive call sidesteps again (the depth of
\* the recursion is the number of sidesteps made); clear, the return to path
LFR_avoid_check(echo) ==
  /\ pc = "LFR_avoid_check"
  /\ checks' = Append(checks, echo)
  /\ IF isObstacleDetected(echo)
     THEN /\ Count(log, {"turnRight"}) < MaxSidesteps
          /\ Run(log, Advance(sinceHistory, LFR_EchoMs(echo)), sidestep)
          /\ pc' = "LFR_avoid_check"
     ELSE /\ Run(log, Advance(sinceHistory, LFR_EchoMs(echo)), returnToPath)
          /\ pc' = "LFR_return"
  /\ UNCHANGED <<lastR, lastG, lastB, lastColor, searchForwardMs, colorHistory,
                 historyIndex, enable, i, rightColor, leftColor, obstacle,
                 sweep, called, samples, trail, failedSearches, sensor, course,
                 onRedPath, written, navLogged, budget>>

LFR_Avoid ==
  \/ LFR_avoidObstacle
  \/ \E probe \in course : LFR_avoid_check(probe[1])

(***************************************************************************)
(* line_follower_robot.ino : loop(), handleRedPath() and findLine()        *)
(***************************************************************************)
\* state of the other sketches, which line_follower_robot.ino does not have
LFR_none ==
  <<lastColor, searchForwardMs, colorHistory, historyIndex, enable,
    rightColor, leftColor, obstacle, sweep, failedSearches, sensor, course,
    written, navLogged, checks>>

\* the switch of loop()
LFR_Dispatch(current) ==
  CASE current = BLACK -> "onTrack"
    [] current = RED -> "handleRedPath"
    [] current = GREEN -> "clearPath"
    [] current = BLUE -> "custom"
    [] current = WHITE -> "findLine"
    [] OTHER -> "reassess"

\* one rotation pulse of findLine: turn, delay(100), stopMotors
LFR_pulse(c) == <<Cmd(c, 100), Cmd("stopMotors", 0)>>

\* "Return to center if not found": turnRight, delay(100), five times
LFR_recentre == [k \in 1..5 |-> Cmd("turnRight", 100)]

\* variant: findLine always returns into loop()
LFR_callerLoop == "LFR_loop"

\* where findLine returns to, after the delay(50) that follows both calls
LFR_caller == IF called = "handleRedPath" THEN "LFR_handleRedPath" ELSE "LFR_loop"

LFR_loop(rd) ==
  LET current == LFR_readColor(rd[1], rd[2], rd[3])
      route == LFR_Dispatch(current)
  IN /\ pc = "LFR_loop" /\ budget # 0
     /\ budget' = Spend(budget)
     /\ Sample(rd)
     /\ called' = route
     /\ trail' = Remember(trail, <<current, route>>)
     /\ samples' = 0
     /\ i' = 0
     /\ onRedPath' = (CASE current = RED -> TRUE
                        [] current = GREEN -> FALSE
                        [] OTHER -> onRedPath)
     /\ UNCHANGED LFR_none
     /\ CASE route = "handleRedPath" ->
               \* handleRedPath up to the test of its while loop
               /\ Run(<< >>, sinceHistory, <<Cmd("moveForward", 0)>>)
               /\ pc' = "LFR_handleRedPath"
          [] route = "findLine" ->
               \* findLine up to its first readColor
               /\ Run(<< >>, sinceHistory,
                      <<Cmd("stopMotors", 0)>> \o LFR_pulse("turnRight"))
               /\ pc' = "LFR_findLine_right"
          [] route = "reassess" ->
               /\ Run(<< >>, sinceHistory, Hold(<<Cmd("stopMotors", 100)>>, 50))
               /\ pc' = "LFR_loop"
          [] OTHER ->
               \* BLACK, GREEN and BLUE: moveForward
               /\ Run(<< >>, sinceHistory, Hold(<<Cmd("moveForward", 0)>>, 50))
               /\ pc' = "LFR_loop"

\* "while (onRedPath)" and the obstacle check that opens each pass
LFR_handleRedPath(echo) ==
  /\ pc = "LFR_handleRedPath"
  /\ log' = << >>
  /\ motors' = motors
  /\ UNCHANGED <<lastR, lastG, lastB, i, called, samples, trail, onRedPath,
                 budget>>
  /\ UNCHANGED LFR_none
  /\ IF ~onRedPath
     THEN \* the loop ends; loop() goes on to its delay(50)
          /\ sinceHistory' = Advance(sinceHistory, 50)
          /\ pc' = "LFR_loop"
     ELSE /\ sinceHistory' = Advance(sinceHistory, LFR_EchoMs(echo))
          /\ pc' = IF isObstacleDetected(echo) THEN "LFR_avoidObstacle"
                   ELSE "LFR_redPath_color"

\* avoidObstacle has returned into handleRedPath
LFR_resume ==
  /\ pc = "LFR_return" /\ called = "avoidObstacle"
  /\ called' = "handleRedPath"
  /\ pc' = "LFR_redPath_color"
  /\ UNCHANGED <<lastR, lastG, lastB, sinceHistory, motors, i, log, samples,
                 trail, onRedPath, budget>>
  /\ UNCHANGED LFR_none

\* "Check current color to see if we're still on red path"
LFR_redPath_color(rd) ==
  LET current == LFR_readColor(rd[1], rd[2], rd[3])
  IN /\ pc = "LFR_redPath_color"
     /\ Sample(rd)
     /\ UNCHANGED <<called, trail, budget>>
     /\ UNCHANGED LFR_none
     /\ CASE current = BLACK ->
               /\ Run(log, sinceHistory, Hold(<<Cmd("moveForward", 0)>>, 50))
               /\ pc' = "LFR_handleRedPath"
               /\ UNCHANGED <<onRedPath, i, samples>>
          [] current = GREEN ->
               \* break, then the delay(50) of loop()
               /\ onRedPath' = FALSE
               /\ Run(log, sinceHistory, <<Cmd("delay", 50)>>)
               /\ pc' = "LFR_loop"
               /\ UNCHANGED <<i, samples>>
          [] current = WHITE ->
               /\ Run(log, sinceHistory,
                      <<Cmd("stopMotors", 0)>> \o LFR_pulse("turnRight"))
               /\ i' = 0 /\ samples' = 0
               /\ pc' = "LFR_findLine_right"
               /\ UNCHANGED onRedPath
          [] OTHER ->
               /\ Run(log, sinceHistory, <<Cmd("delay", 50)>>)
               /\ pc' = "LFR_handleRedPath"
               /\ UNCHANGED <<onRedPath, i, samples>>

\* the sample that follows a right pulse of findLine
LFR_findLine_right(rd) ==
  /\ pc = "LFR_findLine_right"
  /\ Sample(rd)
  /\ samples' = samples + 1
  /\ UNCHANGED <<called, trail, onRedPath, budget>>
  /\ UNCHANGED LFR_none
  /\ IF LFR_readColor(rd[1], rd[2], rd[3]) = BLACK
     THEN /\ Run(log, sinceHistory, <<Cmd("delay", 50)>>)
          /\ pc' = LFR_caller
          /\ i' = i
     ELSE IF i + 1 < 5
     THEN /\ i' = i + 1
          /\ pc' = "LFR_findLine_right"
          /\ Run(log, sinceHistory, LFR_pulse("turnRight"))
     ELSE /\ i' = 0
          /\ pc' = "LFR_findLine_left"
          /\ Run(log, sinceHistory, LFR_pulse("turnLeft"))

\* the sample that follows a left pulse of findLine
LFR_findLine_left(rd) ==
  /\ pc = "LFR_findLine_left"
  /\ Sample(rd)
  /\ samples' = samples + 1
  /\ UNCHANGED <<called, trail, onRedPath, budget>>
  /\ UNCHANGED LFR_none
  /\ IF LFR_readColor(rd[1], rd[2], rd[3]) = BLACK
     THEN /\ Run(log, sinceHistory, <<Cmd("delay", 50)>>)
          /\ pc' = LFR_caller
          /\ i' = i
     ELSE IF i + 1 < 10
     THEN /\ i' = i + 1
          /\ pc' = "LFR_findLine_left"
          /\ Run(log, sinceHistory, LFR_pulse("turnLeft"))
     ELSE \* nothing found: back to the centre and one unit forward
          /\ Run(log, sinceHistory,
                 Hold(LFR_recentre \o <<Cmd("stopMotors", 0)>> \o moveForwardUnit,
                      50))
          /\ pc' = LFR_caller
          /\ i' = 0

\* line_follower_robot.ino from power-up, on a course where the ultrasonic
\* sensor can return the echoes es
InitRobot ==
  \E es \in (SUBSET Echoes) \ {{}} :
    /\ pc = "LFR_loop"
    /\ setupOn(LFR_Readings, es \X {TRUE} \X {TRUE}, MaxRobotCycles)

NextRobot ==
  \/ \E rd \in sensor : LFR_loop(rd)
  \/ \E probe \in course : LFR_handleRedPath(probe[1])
  \/ \E rd \in sensor : LFR_redPath_color(rd)
  \/ LFR_Avoid
  \/ LFR_resume
  \/ \E rd \in sensor : LFR_findLine_right(rd)
  \/ \E rd \in sensor : LFR_findLine_left(rd)

SpecRobot == InitRobot /\ [][NextRobot]_vars

(***************************************************************************)
(* Specifications across the sketches                                      *)
(***************************************************************************)
\* handleFork of line_follower_robot.ino is entered on either path
InitFork ==
  \/ pc = "loop" /\ setup(Readings, MaxCycles)
  \/ pc = "LFR_handleFork" /\ LFR_setup(LFR_Readings)

NextFork ==
  \/ NextNav
  \/ LFR_Fork

\* both fork probes: sketch_jan31a.ino from power-up, line_follower_robot.ino
\* from the entry of handleFork
SpecFork == InitFork /\ [][NextFork]_vars

\* sketch_jan31a.ino or line_follow_test.ino, each from power-up
InitJoint ==
  \/ pc = "loop" /\ setup(Readings, MaxJointCycles)
  \/ pc = "LFT_loop" /\ setup(TestReadings, MaxJointCycles)

NextJoint ==
  \/ NextNav
  \/ NextTest

SpecJoint == InitJoint /\ [][NextJoint]_vars

\* the processor never halts: whatever step is due is eventually taken
FairJoint == SpecJoint /\ WF_vars(NextJoint)

\* sketch_jan31a.ino on a black line that borders one other surface, for each
\* of the other surfaces; loop() is called again and again
InitCycle ==
  \E rd \in Readings \ {<<122, 135, 109>>} :
    pc = "loop" /\ setup({<<122, 135, 109>>, rd}, MaxFairCycles)

FairNav == InitCycle /\ [][NextNav]_vars /\ WF_vars(NextNav)

\* sketch_jan31a.ino on a black line over white ground, with reads that time out
InitDrift ==
  /\ pc = "loop"
  /\ setup({<<15, 17, 15>>, <<122, 135, 109>>, <<0, 0, 0>>}, MaxDriftCycles)

SpecDrift == InitDrift /\ [][NextLoss]_vars

\* the calibrated ranges of a profile: <<R, G, B>>, each <<min, max>>
Profile(c) ==
  CASE c = WHITE -> <<<<WHITE_R_MIN, WHITE_R_MAX>>, <<WHITE_G_MIN, WHITE_G_MAX>>,
                      <<WHITE_B_MIN, WHITE_B_MAX>>>>
    [] c = BLACK -> <<<<BLACK_R_MIN, BLACK_R_MAX>>, <<BLACK_G_MIN, BLACK_G_MAX>>,
                      <<BLACK_B_MIN, BLACK_B_MAX>>>>
    [] c = RED -> <<<<RED_R_MIN, RED_R_MAX>>, <<RED_G_MIN, RED_G_MAX>>,
                    <<RED_B_MIN, RED_B_MAX>>>>
    [] c = GREEN -> <<<<GREEN_R_MIN, GREEN_R_MAX>>, <<GREEN_G_MIN, GREEN_G_MAX>>,
                      <<GREEN_B_MIN, GREEN_B_MAX>>>>
    [] c = BLUE -> <<<<BLUE_R_MIN, BLUE_R_MAX>>, <<BLUE_G_MIN, BLUE_G_MAX>>,
                     <<BLUE_B_MIN, BLUE_B_MAX>>>>

\* WHITE, BLACK, RED, GREEN, BLUE: the order in which readColor scans them
Profiles == <<WHITE, BLACK, RED, GREEN, BLUE>>

\* the values of channel ch at which some range test changes its answer, the
\* values just beside them, and the time-out value 0
Edges(ch) ==
  {0} \cup UNION {{Profile(Profiles[p])[ch][1] - 1, Profile(Profiles[p])[ch][1],
                   Profile(Profiles[p])[ch][2], Profile(Profiles[p])[ch][2] + 1} :
                  p \in 1..5}

\* one reading out of every cell the fifteen range tests cut the readings into
Grid == Edges(1) \X Edges(2) \X Edges(3)

\* sketch_jan31a.ino on a surface that returns one reading of the grid
InitGrid == \E rd \in Grid : pc = "loop" /\ setup({rd}, MaxGridCycles)

SpecGrid == InitGrid /\ [][NextNav]_vars

\* line_follow_test.ino on a course where the obstacle sensors keep one answer,
\* or line_follower_robot.ino at the entry of avoidObstacle
InitObstacle ==
  \/ \E probe \in Course :
       pc = "LFT_loop" /\ setupOn(TestReadings, {probe}, MaxTestCycles)
  \/ pc = "LFR_avoidObstacle" /\ LFR_setup(LFR_Readings)

NextObstacle ==
  \/ NextTest
  \/ LFR_Avoid

SpecObstacle == InitObstacle /\ [][NextObstacle]_vars

\* sketch_jan31a.ino on every surface, or line_follow_test.ino on its track
\* with every answer of the obstacle sensors, for a few cycles from power-up
InitGate ==
  \/ pc = "loop" /\ setup(Readings, MaxGateCycles)
  \/ pc = "LFT_loop" /\ setup(TestReadings, MaxGateCycles)

SpecGate == InitGate /\ [][NextJoint]_vars

\* sketch_jan31a.ino on a checkpoint marker next to the line, observed forever
InitBlue == /\ pc = "loop" /\ setup({<<114, 78, 41>>, <<122, 135, 109>>}, 0 - 1)

NextBlue == \E rd \in sensor : loop(rd)

SpecBlue == InitBlue /\ [][NextBlue]_vars

FairBlue == SpecBlue /\ WF_vars(NextBlue)

(***************************************************************************)
(* Properties                                                              *)
(***************************************************************************)
Min(a, b) == IF a < b THEN a ELSE b

Bad(c) == c = WHITE \/ c = UNKNOWN

\* the labels of the n most recent classifying cycles, oldest first
Recent(n) == [k \in 1..n |-> trail[Len(trail) - n + k][1]]

\* a step of loop() or findLine in which a sample is classified as c
Classifies(c) ==
  /\ \/ pc = "loop" /\ budget' = budget - 1
     \/ pc \in {"findLine_right", "findLine_left"} /\ samples' = samples + 1
  /\ readColor(lastR', lastG', lastB') = c

\* C1: findLine is invoked in a cycle only if that cycle and the three
\* classifying cycles before it each produced WHITE or UNKNOWN, and every
\* other WHITE/UNKNOWN cycle issues moveForward and nothing else.
C1_OnlySustainedLoss ==
  /\ called = "findLine" =>
       /\ Len(trail) >= BAD_THRESHOLD
       /\ \A k \in 1..BAD_THRESHOLD : Bad(Recent(BAD_THRESHOLD)[k])
  /\ called = "noise" => \A k \in 1..Len(log) : log[k][1] = "moveForward"

\* C2: after a BLACK cycle, four WHITE cycles in a row invoke findLine in
\* the fourth of them and in none of the first three.
C2_OneRecoveryForFour ==
  \A s \in 1..(Len(trail) - 4) :
    (trail[s][1] = BLACK /\ \A k \in 1..4 : trail[s + k][1] = WHITE)
      => /\ \A k \in 1..3 : trail[s + k][2] = "noise"
         /\ trail[s + 4][2] = "findLine"

C2_Witness ==
  /\ Len(trail) >= 5
  /\ Recent(5) = <<BLACK, WHITE, WHITE, WHITE, WHITE>>
  /\ pc = "findLine_right"
  /\ samples = 0

\* C3: searchForwardMs is min(150 + 50*k, 500) after k failed findLine
\* invocations in a row, and a step of loop() or findLine that classifies
\* BLACK leaves it at exactly 150.
C3_AdaptiveDuration ==
  /\ [](searchForwardMs = Min(150 + 50 * failedSearches, 500))
  /\ [][Classifies(BLACK) => searchForwardMs' = 150]_vars

C3_Witness ==
  /\ failedSearches = 8
  /\ searchForwardMs = 500
  /\ pc = "loop"

\* C4: searchForwardMs is always one of 150, 200, ..., 500; a step leaves it
\* unchanged, adds exactly 50 at the end of a failed findLine, or sets it to
\* 150 while classifying BLACK.
C4_MonotoneUntilBlack ==
  /\ [](searchForwardMs \in {150 + 50 * k : k \in 0..7})
  /\ [][\/ searchForwardMs' = searchForwardMs
        \/ searchForwardMs' = searchForwardMs + 50 /\ pc = "findLine_left" /\ pc' = "loop"
             /\ readColor(lastR', lastG', lastB') # BLACK
        \/ searchForwardMs' = 150 /\ Classifies(BLACK)]_vars

C4_Witness ==
  /\ searchForwardMs = 150
  /\ failedSearches = 0
  /\ called = "findLine"
  /\ pc = "loop"
  /\ budget < MaxLossCycles - 4


Turns == {"turnLeft", "turnRight", "turnLeftSlow", "turnRightSlow"}
Drives == Turns \cup {"moveForward", "moveBackward"}

\* the hold time of the last moveForward of the cycle's log
LastAdvance(l) ==
  LET at == CHOOSE k \in 1..Len(l) :
              /\ l[k][1] = "moveForward"
              /\ \A m \in (k + 1)..Len(l) : l[m][1] # "moveForward"
  IN l[at][2]

\* a step in which the continuous findLine gives up
LFT_GivesUp ==
  /\ pc = "LFT_slowSweep90"
  /\ pc' = "LFT_loop"
  /\ failedSearches' = failedSearches + 1

\* C5: when the continuous-sweep findLine finds nothing it advances for
\* searchForwardMs (the loop's 50 ms follow) and then grows searchForwardMs
\* by 50, capped at 500.
C5_ContinuousSweepAdapts ==
  [][LFT_GivesUp =>
       /\ LastAdvance(log') = searchForwardMs + 50
       /\ searchForwardMs' = Min(searchForwardMs + 50, 500)]_vars

\* C6: a cycle in which handleObstacle reports an obstacle reads no colour,
\* records nothing, leaves lastColor, the history clock and searchForwardMs
\* alone and issues only the avoidance commands; a cycle that classifies is
\* one that handleObstacle let through.
C6_ObstaclePreempts ==
  [][(pc = "LFT_loop" /\ budget' # budget) =>
       /\ obstacle' # 0 =>
            /\ UNCHANGED <<lastR, lastG, lastB, lastColor, colorHistory,
                           historyIndex, searchForwardMs, trail, samples>>
            /\ sinceHistory' >= sinceHistory
            /\ called' = "handleObstacle"
            /\ log' = avoid(obstacle')
            /\ pc' = "LFT_loop"
       /\ trail' # trail => obstacle' = 0 /\ called' # "handleObstacle"]_vars

C6_Witness ==
  /\ obstacle = 1
  /\ called = "handleObstacle"
  /\ log = <<Cmd("stopMotors", 0), Cmd("turnRight", 200), Cmd("stopMotors", 0)>>
  /\ Len(trail) = 1
  /\ lastColor = BLACK
  /\ budget = MaxTestCycles - 2


\* the 90-degree turn a finished fork probe took, just before moveForward
ForkTaken == log[Len(log) - 2][1]

ForkDecided ==
  \/ pc = "loop" /\ called = "handleFork"
  \/ pc = "LFR_return"

\* C7: for every pair of sampled labels the fork probe turns left exactly
\* when the left label is RED and the right label is not, and turns right
\* otherwise.
C7_ForkTable ==
  ForkDecided =>
    /\ log[Len(log)][1] = "moveForward"
    /\ ForkTaken = (IF leftColor = RED /\ rightColor # RED
                    THEN "turnLeft" ELSE "turnRight")

C7_Witness ==
  /\ pc = "LFR_return"
  /\ leftColor = RED /\ rightColor = GREEN
  /\ ForkTaken = "turnLeft"
  /\ onRedPath


InSketch ==
  pc \in {"loop", "findLine_right", "findLine_left", "handleFork_right",
          "handleFork_left"}

Marker(c) == c = RED \/ c = GREEN

C9_ResumesAfterDwell ==
  [](called = "checkpoint" => <>(Count(log, Drives) > 0))

Searching == pc \in {"findLine_right", "findLine_left", "LFT_slowSweep90"}

\* C10: findLine always returns to loop(); the stepwise findLine takes at
\* most 15 samples and issues at most 20 rotation pulses, the continuous one
\* runs at most three sweeps and a sweep ends once its elapsed time reaches
\* its duration.
C10_FindLineBounded ==
  /\ [](Searching => <>(pc \in {"loop", "LFT_loop"}))
  /\ []((InSketch /\ called = "findLine") =>
          /\ samples <= 15
          /\ Count(log, Turns) <= 20)
  /\ [](pc = "LFT_slowSweep90" =>
          /\ sweep.call \in 1..3
          /\ sweep.elapsed < sweep.durationMs)
  /\ [][(pc = "LFT_slowSweep90" /\ ~isValidColor(readColor(lastR', lastG', lastB')))
          => \/ sweep' = [sweep EXCEPT !.elapsed = @ + 10]
             \/ sweep.elapsed + 10 >= sweep.durationMs]_vars

C10_Witness ==
  /\ pc = "loop"
  /\ called = "findLine"
  /\ samples = 15
  /\ Count(log, Turns) = 20
  /\ failedSearches = 1


\* the entry k places behind the write cursor (k = 1 is the latest write)
HistoryBack(k) == colorHistory[(historyIndex - k + HISTORY_SIZE) % HISTORY_SIZE]

\* C11: the buffer always has its 8 slots; read backward from the cursor it
\* holds the labels written most recently, latest first, then UNKNOWN for
\* the slots never written; a write into a full buffer replaces the oldest
\* label and nothing else.
C11_LatestEight ==
  /\ [](/\ DOMAIN colorHistory = 0..(HISTORY_SIZE - 1)
        /\ historyIndex \in 0..(HISTORY_SIZE - 1)
        /\ \A k \in 1..HISTORY_SIZE :
             HistoryBack(k) = IF k <= Len(written)
                              THEN written[Len(written) - k + 1]
                              ELSE UNKNOWN)
  /\ [][(Len(written) = HISTORY_SIZE /\ historyIndex' # historyIndex) =>
          /\ colorHistory[historyIndex] = written[1]
          /\ colorHistory' = [colorHistory EXCEPT ![historyIndex] = written'[HISTORY_SIZE]]
          /\ written' = Tail(written) \o <<written'[HISTORY_SIZE]>>]_vars

C11_Witness ==
  /\ written = <<BLUE, BLUE, BLUE, BLACK, BLACK, BLUE, BLACK, BLACK>>
  /\ historyIndex = 3
  /\ colorHistory[2] = BLACK /\ colorHistory[3] = BLUE


\* a buffer whose four latest entries, oldest first, are given and whose
\* other entries are BLACK
Ending(four) ==
  [k \in 0..(HISTORY_SIZE - 1) |-> IF k < 4 THEN BLACK ELSE four[k - 3]]

\* C12: shouldSweep is true exactly when each of the four latest history
\* entries is WHITE or UNKNOWN; it is false for BLACK, UNKNOWN, UNKNOWN,
\* UNKNOWN in any order and true for four UNKNOWN.
C12_FourBadInARow ==
  /\ shouldSweep(colorHistory, historyIndex)
       <=> \A k \in 1..BAD_THRESHOLD : Bad(HistoryBack(k))
  /\ called = "findLine" => \A k \in 1..BAD_THRESHOLD : Bad(HistoryBack(k))
  /\ called = "noise" => \E k \in 1..BAD_THRESHOLD : ~Bad(HistoryBack(k))
  /\ \A at \in 1..4 :
       ~shouldSweep(Ending([k \in 1..4 |-> IF k = at THEN BLACK ELSE UNKNOWN]), 0)
  /\ shouldSweep(Ending(<<UNKNOWN, UNKNOWN, UNKNOWN, UNKNOWN>>), 0)

C12_Witness ==
  /\ Len(written) >= 4
  /\ [k \in 1..4 |-> HistoryBack(5 - k)] = <<BLACK, UNKNOWN, UNKNOWN, WHITE>>
  /\ called = "noise"
  /\ pc = "loop"


\* the reading the latest readColor call latched
Latched == <<lastR, lastG, lastB>>

\* how many channels of the latched reading lie in the ranges of profile c
Hits(c) ==
  Cardinality({ch \in 1..3 : /\ Latched[ch] >= Profile(c)[ch][1]
                             /\ Latched[ch] <= Profile(c)[ch][2]})

MaxHits == CHOOSE n \in 0..3 :
             /\ \E p \in 1..5 : Hits(Profiles[p]) = n
             /\ \A p \in 1..5 : Hits(Profiles[p]) <= n

\* a loop() cycle has classified the latched reading; Label is its result
Classified == pc = "loop" /\ trail # << >>
Label == trail[Len(trail)][1]

\* C13: a reading with at least 2 channels in range of exactly one profile and
\* fewer than 2 in range of every other is classified as that profile.
C13_UniqueProfileWins ==
  Classified =>
    \A p \in 1..5 :
      (/\ Hits(Profiles[p]) >= 2
       /\ \A q \in 1..5 : q # p => Hits(Profiles[q]) < 2)
        => Label = Profiles[p]

C13_Witness ==
  /\ Classified
  /\ Latched = <<32, 55, 0>>
  /\ Label = RED
  /\ called = "handleFork"

\* C14: readColor returns UNKNOWN exactly for the readings that have fewer
\* than 2 channels in range of every profile.
C14_UnknownIffNoProfile ==
  Classified => (Label = UNKNOWN <=> \A p \in 1..5 : Hits(Profiles[p]) < 2)

C14_Witness ==
  /\ Classified
  /\ Latched = <<12, 0, 0>>
  /\ Hits(WHITE) = 1 /\ Hits(RED) = 1
  /\ Label = UNKNOWN

\* C15: when some profile has at least 2 channels in range, readColor returns
\* the first profile in the order WHITE, BLACK, RED, GREEN, BLUE that has the
\* largest number of channels in range; every reading gets one label.
C15_FirstMaximumWins ==
  Classified =>
    /\ Label \in Color
    /\ MaxHits >= 2 =>
         \E p \in 1..5 :
           /\ Label = Profiles[p]
           /\ Hits(Profiles[p]) = MaxHits
           /\ \A q \in 1..(p - 1) : Hits(Profiles[q]) < MaxHits

C15_Witness ==
  /\ Classified
  /\ Latched = <<12, 14, 40>>
  /\ Hits(WHITE) = 2 /\ Hits(RED) = 2
  /\ Label = WHITE

\* C16: the time-out value 0 is outside every range of every profile; a
\* reading with all three channels timed out has no channel in range of any
\* profile and is classified UNKNOWN, and the cycle goes on as any other
\* WHITE/UNKNOWN cycle does.
C16_TimeoutIsUnknown ==
  /\ \A p \in 1..5, ch \in 1..3 :
       ~inRange(0, Profile(Profiles[p])[ch][1], Profile(Profiles[p])[ch][2])
  /\ \A p \in 1..5, ch \in 1..3 :
       (trail # << >> /\ Latched[ch] = 0) =>
         Hits(Profiles[p]) <= Cardinality({d \in 1..3 : Latched[d] # 0})
  /\ (trail # << >> /\ Latched = <<0, 0, 0>>) =>
       /\ \A p \in 1..5 : Hits(Profiles[p]) = 0
       /\ Label = UNKNOWN
       /\ trail[Len(trail)][2] \in {"findLine", "noise"}
       /\ readColor(0, 0, 0) = UNKNOWN /\ readColorDebug(0, 0, 0) = UNKNOWN

C16_Witness ==
  /\ Classified
  /\ Latched = <<0, 0, 0>>
  /\ Label = UNKNOWN
  /\ called = "findLine"
  /\ samples = 15


\* the one answer of the obstacle sensors on a course that has only one
Probe == CHOOSE p \in course : TRUE

\* the status table: 3 front or both sides, 1 left only, 2 right only, 0 clear
Status(front, left, right) ==
  IF front \/ (left /\ right) THEN 3
  ELSE IF left THEN 1
  ELSE IF right THEN 2
  ELSE 0

\* a cycle of line_follow_test.ino has polled the obstacle sensors
Polled == Cardinality(course) = 1 /\ called \notin {"none", "avoidObstacle"}

\* C17: checkObstacles gives 3 when the front or both sides are blocked, 1
\* for left only, 2 for right only and 0 for none, for all 8 combinations.
C17_StatusTable ==
  /\ \A front \in BOOLEAN, left \in BOOLEAN, right \in BOOLEAN :
       checkObstacles(front, left, right) = Status(front, left, right)
  /\ Polled =>
       obstacle = Status(obstacleFront(Probe[1]), obstacleLeft(Probe[2]),
                         obstacleRight(Probe[3]))

C17_Witness ==
  /\ Polled
  /\ Probe = <<500, FALSE, TRUE>>
  /\ obstacle = 3
  /\ called = "handleObstacle"

\* C18: without an echo the front counts as not blocked: the status is the
\* one the side sensors give, a cycle with both sides free classifies the
\* colour and navigates, and avoidObstacle takes the path as clear.
C18_NoEchoFailsOpen ==
  /\ ~obstacleFront(0) /\ ~isObstacleDetected(0)
  /\ (Polled /\ Probe[1] = 0) =>
       /\ obstacle = Status(FALSE, ~Probe[2], ~Probe[3])
       /\ (Probe[2] /\ Probe[3]) =>
            /\ obstacle = 0
            /\ called \in {"onTrack", "proceed", "checkpoint", "findLine", "noise"}
            /\ trail # << >>

C18_Witness ==
  /\ Polled
  /\ Probe = <<0, TRUE, TRUE>>
  /\ called = "onTrack"
  /\ motors = Pins("moveForward")
  /\ budget = 0

\* dead reckoning over a script: quarter turns to the right and move units
RECURSIVE Reckon(_, _)
Reckon(script, pose) ==
  IF script = << >> THEN pose
  ELSE LET c == script[1]
           next ==
             IF c[1] = "turnRight" /\ c[2] = TURN_90_DELAY
             THEN [pose EXCEPT !.heading = (@ + 1) % 4]
             ELSE IF c[1] = "turnLeft" /\ c[2] = TURN_90_DELAY
             THEN [pose EXCEPT !.heading = (@ + 3) % 4]
             ELSE IF c[1] = "moveForward" /\ c[2] = MOVE_UNIT_DELAY
             THEN CASE pose.heading = 0 -> [pose EXCEPT !.ahead = @ + 1]
                    [] pose.heading = 1 -> [pose EXCEPT !.right = @ + 1]
                    [] pose.heading = 2 -> [pose EXCEPT !.ahead = @ - 1]
                    [] OTHER -> [pose EXCEPT !.right = @ - 1]
             ELSE pose
       IN Reckon(Tail(script), next)

\* where the commands of the log have taken the robot
Pose == Reckon(log, [heading |-> 0, ahead |-> 0, right |-> 0])

\* C19: when avoidObstacle returns the robot has no net lateral displacement
\* and no net heading change, however many sidesteps it made.
C19_BackOnTheLine ==
  (pc = "LFR_return" /\ called = "avoidObstacle") =>
    /\ Pose.heading = 0
    /\ Pose.right = 0

\* the commands of a script, without their hold times
Names(script) == [k \in 1..Len(script) |-> script[k][1]]

\* the look to the right and to the left that precedes the decision
ForkLook ==
  <<"stopMotors", "turnRight", "stopMotors", "turnLeft", "stopMotors",
    "turnLeft", "stopMotors", "turnRight", "stopMotors">>

\* C20: handleFork stops, turns right 90, samples the right label, turns left
\* 90 twice, samples the left label and turns right 90, so its net rotation is
\* zero when it decides and it has classified exactly two samples; it then
\* makes exactly one 90-degree turn and advances.
C20_ForkOrder ==
  /\ pc = "handleFork_right" =>
       /\ Names(log) = SubSeq(ForkLook, 1, 3)
       /\ samples = 0
  /\ pc = "handleFork_left" =>
       /\ Names(log) = SubSeq(ForkLook, 1, 7)
       /\ samples = 1
       /\ rightColor = readColor(lastR, lastG, lastB)
  /\ (pc = "loop" /\ called = "handleFork") =>
       /\ Len(log) = 12
       /\ Names(SubSeq(log, 1, 9)) = ForkLook
       /\ \A k \in {2, 4, 6, 8, 10} : log[k][2] = TURN_90_DELAY
       /\ Reckon(SubSeq(log, 1, 9),
                 [heading |-> 0, ahead |-> 0, right |-> 0]).heading = 0
       /\ samples = 2
       /\ leftColor = readColor(lastR, lastG, lastB)
       /\ log[10][1] \in {"turnLeft", "turnRight"}
       /\ log[11][1] = "stopMotors"
       /\ log[12][1] = "moveForward" /\ log[12][2] > 0

C20_Witness ==
  /\ pc = "loop" /\ called = "handleFork"
  /\ rightColor = GREEN /\ leftColor = RED
  /\ log[10][1] = "turnLeft"
  /\ samples = 2

\* the status of the one answer of the obstacle sensors
ProbeStatus ==
  Status(obstacleFront(Probe[1]), obstacleLeft(Probe[2]),
         obstacleRight(Probe[3]))

\* C21: handleObstacle issues no motor command and returns false when the
\* status is clear; otherwise it stops first, turns right for LEFT, left for
\* RIGHT, reverses and then turns right for FRONT/BOTH, and returns true with
\* the motors stopped.
C21_AvoidByStatus ==
  (Polled /\ pc = "LFT_loop") =>
    IF ProbeStatus = 0
    THEN /\ called # "handleObstacle"
         /\ trail # << >>
         /\ called \in {"onTrack", "proceed", "noise"} =>
              Names(log) = <<"moveForward">>
    ELSE /\ called = "handleObstacle"
         /\ log[1][1] = "stopMotors"
         /\ Names(Tail(log)) =
              (CASE ProbeStatus = 1 -> <<"turnRight", "stopMotors">>
                 [] ProbeStatus = 2 -> <<"turnLeft", "stopMotors">>
                 [] OTHER -> <<"moveBackward", "stopMotors", "turnRight",
                               "stopMotors">>)
         /\ motors = Pins("stopMotors")

C21_Witness ==
  /\ Polled /\ pc = "LFT_loop"
  /\ Probe = <<2000, FALSE, TRUE>>
  /\ called = "handleObstacle"
  /\ Names(log) = <<"stopMotors", "turnRight", "stopMotors">>

\* the stepwise findLine is between two of its samples
Stepping == pc \in {"findLine_right", "findLine_left"}

\* C22: the stepwise findLine samples after each of up to 5 right pulses and
\* then after each of up to 10 left pulses; the first BLACK sample ends it
\* with no further pulse or sample and searchForwardMs reset to 150; a sample
\* of any other label does not end it before the fifteenth.
C22_StopsAtBlack ==
  /\ [](pc = "findLine_right" =>
          /\ samples < 5
          /\ Count(log, {"turnRight"}) = samples + 1
          /\ Count(log, {"turnLeft"}) = 0)
  /\ [](pc = "findLine_left" =>
          /\ samples >= 5 /\ samples < 15
          /\ Count(log, {"turnRight"}) = 5
          /\ Count(log, {"turnLeft"}) = samples - 5 + 1)
  /\ [][Stepping =>
          /\ samples' = samples + 1
          /\ IF readColor(lastR', lastG', lastB') = BLACK
             THEN /\ pc' = "loop"
                  /\ searchForwardMs' = 150
                  /\ Count(log', Turns) = Count(log, Turns)
                  /\ log'[Len(log')][1] = "moveForward"
             ELSE IF samples' < 15
             THEN /\ Stepping'
                  /\ searchForwardMs' = searchForwardMs
                  /\ Count(log', Turns) = Count(log, Turns) + 1
             ELSE pc' = "loop"]_vars

C22_Witness ==
  /\ pc = "loop" /\ called = "findLine"
  /\ samples = 7
  /\ readColor(lastR, lastG, lastB) = BLACK
  /\ Count(log, {"turnLeft"}) = 2
  /\ searchForwardMs = 150
  /\ trail[Len(trail)][1] = UNKNOWN

\* a stepwise findLine has returned without a BLACK sample
GaveUp ==
  /\ pc = "loop" /\ called = "findLine"
  /\ samples = 15
  /\ readColor(lastR, lastG, lastB) # BLACK

\* the right pulses issued after the last left pulse
Recentring ==
  Cardinality({k \in 1..Len(log) :
                 /\ log[k][1] = "turnRight"
                 /\ \E m \in 1..(k - 1) : log[m][1] = "turnLeft"})

\* C23 as stated: the recentring issues as many right pulses as findLine issued
\* left pulses.
C23_RecentreByLeftCount ==
  GaveUp => Recentring = Count(log, {"turnLeft"})

\* C23: a findLine that finds no BLACK issues 5 right pulses after its 10
\* left pulses, as many as it issued going right, so that right and left
\* pulses balance; it then advances forward by the adaptive duration.
C23_RecentreByRightCount ==
  GaveUp =>
    /\ Count(log, {"turnLeft"}) = 10
    /\ Recentring = 5
    /\ Recentring = Count(log, {"turnRight"}) - Recentring
    /\ Count(log, {"turnRight"}) = Count(log, {"turnLeft"})
    /\ \A k \in 1..Len(log) : log[k][1] \in {"turnLeft", "turnRight"} =>
                                log[k][2] = 80
    /\ log[Len(log) - 1][1] = "moveForward"
    /\ \A k \in 1..(Len(log) - 2) : log[k][1] # "moveForward"

C23_Witness ==
  /\ GaveUp
  /\ Recentring = 5
  /\ failedSearches = 2
  /\ searchForwardMs = 250

SlowTurns == {"turnLeftSlow", "turnRightSlow"}

Written(k) ==
  IF k <= Len(written) THEN written[Len(written) + 1 - k] ELSE UNKNOWN

\* C25: countRecentBad(k) is the number of WHITE or UNKNOWN labels among the
\* min(k, 8) latest entries read backward from the latest write; the index it
\* computes and historyIndex are always within 0..7.
C25_CountOverWindow ==
  /\ historyIndex \in 0..(HISTORY_SIZE - 1)
  /\ \A lastN \in 0..MaxLastN :
       countRecentBad(colorHistory, historyIndex, lastN) =
         Cardinality({k \in 1..Min(lastN, HISTORY_SIZE) : Bad(Written(k))})
  /\ \A k \in 0..(HISTORY_SIZE - 1) :
       /\ historyIndex - 1 - k + HISTORY_SIZE >= 0
       /\ (historyIndex - 1 - k + HISTORY_SIZE) % HISTORY_SIZE
            \in 0..(HISTORY_SIZE - 1)

C25_Witness ==
  /\ Len(written) = HISTORY_SIZE
  /\ historyIndex = 1
  /\ countRecentBad(colorHistory, historyIndex, 3) = 1
  /\ countRecentBad(colorHistory, historyIndex, 6) = 4
  /\ countRecentBad(colorHistory, historyIndex, MaxLastN) = 5

\* C26: a label is written to the history only when at least 40 ms have
\* passed since the previous write, so two consecutive writes are at least
\* 40 ms apart, and the time of the last write changes exactly when a label
\* is written.
C26_WritesFortyApart ==
  [][LET now == Advance(sinceHistory, ReadMs(<<lastR', lastG', lastB'>>))
         wrote == historyIndex' # historyIndex
     IN IF pc = "loop"
        THEN /\ wrote <=> now >= HISTORY_INTERVAL
             /\ wrote =>
                  /\ historyIndex' = (historyIndex + 1) % HISTORY_SIZE
                  /\ colorHistory' =
                       [colorHistory EXCEPT ![historyIndex] =
                          readColor(lastR', lastG', lastB')]
                  /\ sinceHistory' = Advance(0, Duration(log'))
             /\ ~wrote =>
                  /\ colorHistory' = colorHistory
                  /\ sinceHistory' = Advance(now, Duration(log'))
        ELSE /\ ~wrote
             /\ colorHistory' = colorHistory
             /\ sinceHistory' >= sinceHistory]_vars

C26_Witness ==
  /\ pc = "loop"
  /\ written = <<WHITE, BLACK>>
  /\ historyIndex = 2
  /\ sinceHistory = 50
  /\ called = "onTrack"

\* the label of the classifying cycle before the latest one
PreviousLabel ==
  IF Len(trail) >= 2 THEN trail[Len(trail) - 1][1] ELSE UNKNOWN

\* C27: a cycle logs a transition exactly when its label differs from
\* lastColor, and lastColor is that label afterwards; so in a run of cycles
\* with the same label only the first one logs a transition.
C27_EdgeTriggeredLog ==
  /\ [][IF pc = "loop"
        THEN /\ navLogged' = (readColor(lastR', lastG', lastB') # lastColor)
             /\ lastColor' = readColor(lastR', lastG', lastB')
        ELSE UNCHANGED <<navLogged, lastColor>>]_vars
  /\ []((InSketch /\ trail # << >>) =>
          /\ lastColor = trail[Len(trail)][1]
          /\ navLogged = (trail[Len(trail)][1] # PreviousLabel))

C27_Witness ==
  /\ pc = "loop"
  /\ Len(trail) = 3
  /\ trail[1][1] = BLACK /\ trail[2][1] = BLUE /\ trail[3][1] = BLUE
  /\ lastColor = BLUE
  /\ ~navLogged

\* the label classified by the latest cycle of loop()
CycleLabel == trail[Len(trail)][1]

\* C28: every cycle of loop() comes to its end, and it has then issued the
\* motor action of its label: BLACK drives forward, RED and GREEN run the
\* fork handling, BLUE stops and dwells, WHITE and UNKNOWN run findLine or
\* drive forward.
C28_EveryLabelActs ==
  /\ [](pc # "loop" => <>(pc = "loop"))
  /\ []((pc = "loop" /\ trail # << >>) =>
          /\ log # << >>
          /\ CycleLabel \in Color
          /\ CycleLabel = BLACK =>
               /\ called = "onTrack"
               /\ Names(log) = <<"moveForward">>
               /\ motors = Pins("moveForward")
          /\ CycleLabel \in {RED, GREEN} =>
               /\ called = "handleFork"
               /\ Count(log, {"turnLeft", "turnRight"}) = 5
               /\ motors = Pins("moveForward")
          /\ CycleLabel = BLUE =>
               /\ called = "checkpoint"
               /\ Names(log) = <<"stopMotors">>
               /\ log[1][2] >= 1000
               /\ motors = Pins("stopMotors")
          /\ CycleLabel \in {WHITE, UNKNOWN} =>
               /\ called \in {"findLine", "noise"}
               /\ called = "noise" =>
                    /\ Names(log) = <<"moveForward">>
                    /\ motors = Pins("moveForward")
               /\ called = "findLine" =>
                    /\ Count(log, {"turnLeft", "turnRight"}) > 0
                    /\ Count(log, {"moveForward"}) = 1)

C28_Witness ==
  /\ pc = "loop"
  /\ Len(trail) = 2
  /\ trail[1][1] = BLACK
  /\ CycleLabel = UNKNOWN
  /\ called = "noise"
  /\ motors = Pins("moveForward")

\* what the strict-greater scan alone leaves in bestColor
Scanned == bestMatch(lastR, lastG, lastB).bestColor

\* C29: when the strict-greater scan leaves bestColor UNKNOWN no profile has
\* confidence exactly 2, so the tie branch assigns nothing and readColor is
\* the scan alone.
C29_TieBranchIsDead ==
  Classified =>
    /\ Scanned = UNKNOWN =>
         /\ \A p \in 1..5 : Hits(Profiles[p]) # 2
         /\ tieBreak(lastR, lastG, lastB) = UNKNOWN
    /\ Label = Scanned
    /\ readColorDebug(lastR, lastG, lastB) = Scanned

C29_Witness ==
  /\ Classified
  /\ Latched = <<135, 0, 0>>
  /\ Hits(BLACK) = 1
  /\ Scanned = UNKNOWN
  /\ Label = UNKNOWN

\* C30: a reading for which BLACK has at least 2 channels in range and no
\* profile has more is classified BLACK.
C30_TiesPreferBlack ==
  Classified =>
    ((Hits(BLACK) >= 2 /\ \A p \in 1..5 : Hits(Profiles[p]) <= Hits(BLACK))
       => Label = BLACK)

C30_Witness ==
  /\ Classified
  /\ Latched = <<110, 122, 40>>
  /\ Hits(BLACK) = 2 /\ Hits(BLUE) = 2
  /\ Label = BLACK
  /\ called = "onTrack"

(***************************************************************************)
(* Properties of avoidObstacle and handleRedPath                           *)
(***************************************************************************)
\* an echo of this many microseconds is nearer than 15 cm and not zero
Blocked(echo) ==
  \E cm \in 1..14 : 2000 * cm <= 34 * echo /\ 34 * echo < 2000 * (cm + 1)

BlockedChecks == Cardinality({k \in 1..Len(checks) : Blocked(checks[k])})

SidestepNames ==
  <<"turnRight", "stopMotors", "moveForward", "stopMotors", "turnLeft",
    "stopMotors">>

ReturnNames ==
  <<"moveForward", "stopMotors", "turnLeft", "stopMotors", "moveForward",
    "stopMotors", "turnRight", "stopMotors">>

RECURSIVE Sidesteps(_)
Sidesteps(n) == IF n = 0 THEN << >> ELSE SidestepNames \o Sidesteps(n - 1)

InAvoidObstacle ==
  called = "avoidObstacle" /\ pc \in {"LFR_avoid_check", "LFR_return"}

\* C31: avoidObstacle makes one sidestep for the initial call and one for
\* each check that finds the front blocked; the first check that finds it
\* clear is the last one, is followed by the return sequence exactly once,
\* and avoidObstacle has returned if and only if a check reported clear.
C31_SidestepPerBlockedCheck ==
  InAvoidObstacle =>
    /\ Names(log) = Sidesteps(1 + BlockedChecks)
                     \o (IF pc = "LFR_return" THEN ReturnNames ELSE << >>)
    /\ \A k \in 1..(Len(checks) - 1) : Blocked(checks[k])
    /\ pc = "LFR_return" <=> \E k \in 1..Len(checks) : ~Blocked(checks[k])
    /\ pc = "LFR_return" => \E probe \in course : ~Blocked(probe[1])

C31_Witness ==
  /\ InAvoidObstacle /\ pc = "LFR_return"
  /\ Len(checks) = 3 /\ BlockedChecks = 2
  /\ Count(log, {"turnRight"}) = 4

\* control is inside handleRedPath or something it has called
InRedPath ==
  \/ pc \in {"LFR_handleRedPath", "LFR_redPath_color", "LFR_avoidObstacle",
             "LFR_avoid_check", "LFR_return"}
  \/ pc \in {"LFR_findLine_right", "LFR_findLine_left"}
       /\ called = "handleRedPath"

\* a step in which isObstacleDetected reads the ultrasonic sensor
Pinged ==
  \/ pc = "LFR_handleRedPath" /\ pc' \in {"LFR_avoidObstacle", "LFR_redPath_color"}
  \/ pc = "LFR_avoid_check"

\* the label of the reading the step has taken
Seen == LFR_readColor(lastR', lastG', lastB')

\* C32: the ultrasonic sensor is read only inside handleRedPath with
\* onRedPath true; a RED reading in loop() enters handleRedPath with onRedPath
\* true, and control comes back to loop() only on a GREEN reading, with
\* onRedPath false; a RED, BLUE or UNKNOWN reading inside handleRedPath
\* leaves onRedPath and the motors as they were and only waits 50 ms.
C32_RedPathUntilGreen ==
  [][/\ Pinged => onRedPath /\ InRedPath
     /\ (pc = "LFR_loop" /\ Seen = RED) =>
          onRedPath' /\ pc' = "LFR_handleRedPath"
     /\ (pc = "LFR_loop" /\ InRedPath') => Seen = RED
     /\ (InRedPath /\ pc' = "LFR_loop") => Seen = GREEN /\ ~onRedPath'
     /\ (pc = "LFR_redPath_color" /\ Seen \in {RED, BLUE, UNKNOWN}) =>
          /\ onRedPath' = onRedPath /\ motors' = motors
          /\ Names(log') \in {Names(log), Append(Names(log), "delay")}
          /\ Duration(log') = Duration(log) + 50
          /\ pc' = "LFR_handleRedPath"]_vars

C32_Witness ==
  /\ pc = "LFR_loop" /\ called = "handleRedPath" /\ ~onRedPath
  /\ trail # << >> /\ trail[Len(trail)][1] = RED
  /\ LFR_readColor(lastR, lastG, lastB) = GREEN
  /\ Len(checks) > 0

(***************************************************************************)
(* The diagnostic state and the control state of sketch_jan31a.ino         *)
(***************************************************************************)
\* what a step of the navigation loop leaves behind in the control state,
\* written over the control state before the step and the label of the
\* reading it takes; lastColor, lastR, lastG and lastB do not occur in it
Quarter(c) == <<<<c, TURN_90_DELAY>>, <<"stopMotors", 0>>>>

Pulse(c) == <<<<c, 80>>, <<"stopMotors", 0>>>>

Control ==
  [pc |-> pc, searchForwardMs |-> searchForwardMs,
   colorHistory |-> colorHistory, historyIndex |-> historyIndex, i |-> i,
   log |-> log]

AfterLoop(label) ==
  LET h == [colorHistory EXCEPT ![historyIndex] = label]
      idx == (historyIndex + 1) % HISTORY_SIZE
      lost == \A k \in 1..4 : Bad(h[(idx - k + HISTORY_SIZE) % HISTORY_SIZE])
      base == [pc |-> "loop", searchForwardMs |-> searchForwardMs,
               colorHistory |-> h, historyIndex |-> idx, i |-> 0,
               log |-> <<<<"moveForward", 50>>>>]
  IN CASE label = BLACK -> [base EXCEPT !.searchForwardMs = 150]
       [] label \in {RED, GREEN} ->
            [base EXCEPT !.pc = "handleFork_right",
                         !.log = <<<<"stopMotors", 100>>>> \o Quarter("turnRight")]
       [] label = BLUE -> [base EXCEPT !.log = <<<<"stopMotors", 1050>>>>]
       [] OTHER ->
            IF lost
            THEN [base EXCEPT !.pc = "findLine_right",
                              !.log = <<<<"stopMotors", 0>>>> \o Pulse("turnRight")]
            ELSE base

AfterSearch(label) ==
  IF label = BLACK
  THEN [Control EXCEPT !.pc = "loop", !.searchForwardMs = 150,
                       !.log = Append(log, <<"moveForward", 300>>)]
  ELSE IF pc = "findLine_right"
  THEN IF i < 4
       THEN [Control EXCEPT !.i = i + 1, !.log = log \o Pulse("turnRight")]
       ELSE [Control EXCEPT !.i = 0, !.pc = "findLine_left",
                            !.log = log \o Pulse("turnLeft")]
  ELSE IF i < 9
       THEN [Control EXCEPT !.i = i + 1, !.log = log \o Pulse("turnLeft")]
       ELSE [Control EXCEPT
               !.i = 0, !.pc = "loop",
               !.searchForwardMs = Min(500, searchForwardMs + 50),
               !.log = log \o [k \in 1..5 |-> <<"turnRight", 80>>]
                           \o <<<<"stopMotors", 0>>,
                                <<"moveForward", searchForwardMs>>,
                                <<"stopMotors", 50>>>>]

AfterProbe(label) ==
  IF pc = "handleFork_right"
  THEN [Control EXCEPT !.pc = "handleFork_left",
                       !.log = log \o Quarter("turnLeft") \o Quarter("turnLeft")]
  ELSE [Control EXCEPT
          !.pc = "loop",
          !.log = log \o Quarter("turnRight")
                      \o Quarter(IF label = RED /\ rightColor # RED
                                 THEN "turnLeft" ELSE "turnRight")
                      \o <<<<"moveForward", 250>>>>]

\* C33: the diagnostic variables do not influence control: in every step of
\* the navigation loop the motor commands, the history, searchForwardMs and
\* the place control goes to are a function of the control state before the
\* step and of the reading taken, whatever lastColor, lastR, lastG and lastB
\* held, so two runs fed the same readings agree on all of them.
C33_DiagnosticsDoNotSteer ==
  [][InSketch =>
       LET label == readColor(lastR', lastG', lastB')
       IN Control' = (CASE pc = "loop" -> AfterLoop(label)
                        [] pc \in {"findLine_right", "findLine_left"} ->
                             AfterSearch(label)
                        [] OTHER -> AfterProbe(label))]_vars

C33_Witness ==
  /\ pc = "loop" /\ budget = 0
  /\ lastColor = BLUE /\ ~navLogged
  /\ log = <<<<"stopMotors", 1050>>>>
  /\ \E k \in 1..Len(trail) : trail[k][1] # BLUE

(***************************************************************************)
(* The history gate in sketch_jan31a.ino and line_follow_test.ino          *)
(***************************************************************************)
\* the step is a cycle of loop() that reads the colour sensor
ReadsColour ==
  \/ pc = "loop"
  \/ pc = "LFT_loop" /\ called' # "handleObstacle"

AtLoop == pc \in {"loop", "LFT_loop"}

\* C34: a cycle that classifies starts at least 50 ms after the previous
\* history write (2000 ms after power-up for the first one), so the 40 ms
\* gate is open in it: it writes its label to the history, and the most
\* recent history entry is the label being dispatched.
C34_GateOpenWhenClassifying ==
  /\ [](AtLoop => sinceHistory >= 50)
  /\ [][ReadsColour =>
          /\ sinceHistory >= HISTORY_INTERVAL
          /\ historyIndex' = (historyIndex + 1) % HISTORY_SIZE
          /\ colorHistory' =
               [colorHistory EXCEPT ![historyIndex] =
                  readColor(lastR', lastG', lastB')]
          /\ trail'[Len(trail')][1] = readColor(lastR', lastG', lastB')]_vars
  /\ [](trail # << >> =>
          /\ HistoryBack(1) = trail[Len(trail)][1]
          /\ written[Len(written)] = trail[Len(trail)][1])

C34_Witness ==
  /\ pc = "LFT_loop" /\ called = "onTrack" /\ obstacle = 0
  /\ Len(trail) = 2 /\ trail[1][1] = WHITE
  /\ sinceHistory = 50
  /\ historyIndex = 2 /\ HistoryBack(1) = BLACK /\ HistoryBack(2) = WHITE

(***************************************************************************)
(* What findLine and handleFork leave alone                                *)
(***************************************************************************)
InRecovery ==
  pc \in {"findLine_right", "findLine_left", "handleFork_right",
          "handleFork_left"}

\* findLine has returned to loop() with BLACK under the sensor
Reacquired ==
  pc = "loop" /\ called = "findLine" /\ readColor(lastR, lastG, lastB) = BLACK

\* C35: the steps of findLine and handleFork leave colorHistory, historyIndex
\* and the time of the last history write as they were (the time since that
\* write only grows, by the time the step takes): no sample of a sweep or of
\* a fork probe is recorded, so when findLine has reacquired BLACK the last
\* four history entries are still all WHITE or UNKNOWN.
C35_RecoveryKeepsHistory ==
  /\ [][InRecovery =>
          /\ colorHistory' = colorHistory
          /\ historyIndex' = historyIndex
          /\ written' = written
          /\ sinceHistory' =
               Advance(sinceHistory,
                       ReadMs(<<lastR', lastG', lastB'>>)
                       + Duration(log') - Duration(log))]_vars
  /\ [](Reacquired => \A k \in 1..BAD_THRESHOLD : Bad(HistoryBack(k)))

C35_Witness ==
  /\ Reacquired
  /\ samples = 7
  /\ written = <<WHITE, WHITE>>
  /\ HistoryBack(1) = WHITE /\ HistoryBack(3) = UNKNOWN

(***************************************************************************)
(* The heading of a findLine that fails                                    *)
(***************************************************************************)
\* milliseconds the first n commands of a script spend in command c
RECURSIVE Spun(_, _, _)
Spun(script, n, c) ==
  IF n = 0 THEN 0
  ELSE (IF script[n][1] = c THEN script[n][2] ELSE 0) + Spun(script, n - 1, c)

\* the place in the cycle's log of the forward advance that ends findLine
Advanced == CHOOSE k \in 1..Len(log) : log[k][1] = "moveForward"

\* C36: when the stepwise findLine fails, the right rotation it has commanded
\* (5 search pulses and 5 recentring pulses of 80 ms) lasts as long as the
\* left rotation (10 pulses of 80 ms), so the rotation nets to zero before
\* the forward advance, and nothing turns after it.
C36_FailedSearchNetsToZero ==
  GaveUp =>
    /\ Spun(log, Len(log), "turnRight") = (5 + 5) * 80
    /\ Spun(log, Len(log), "turnLeft") = 10 * 80
    /\ Spun(log, Advanced, "turnRight") = Spun(log, Advanced, "turnLeft")
    /\ \A k \in Advanced..Len(log) : log[k][1] \notin Turns
    /\ motors = Pins("stopMotors")

C36_Witness ==
  /\ GaveUp
  /\ Spun(log, Len(log), "turnLeft") = 800
  /\ log[Advanced][2] = 200
  /\ lastR = 0

(***************************************************************************)
(* readColor and readColorDebug                                            *)
(***************************************************************************)
\* handleFork has taken this many of its two samples in the present cycle
Probed(n) == called = "handleFork" /\ samples >= n

\* C37: readColorDebug and readColor give the same label for every reading,
\* so on a surface that returns one reading the labels of the right and the
\* left fork sample are the label loop() dispatched on.
C37_DebugClassifiesAsLoop ==
  /\ readColorDebug(lastR, lastG, lastB) = readColor(lastR, lastG, lastB)
  /\ Probed(1) => rightColor = Label /\ rightColor = readColor(lastR, lastG, lastB)
  /\ Probed(2) => leftColor = Label

C37_Witness ==
  /\ pc = "loop" /\ Probed(2)
  /\ rightColor = GREEN /\ leftColor = GREEN
  /\ Hits(GREEN) = 2 /\ Hits(BLUE) = 2

(***************************************************************************)
(* The sweep PWM of line_follow_test.ino                                   *)
(***************************************************************************)
\* the place in a script of its last slow turn, 0 if it has none
LastSlowTurn(script) ==
  IF \E k \in 1..Len(script) : script[k][1] \in SlowTurns
  THEN CHOOSE k \in 1..Len(script) :
         /\ script[k][1] \in SlowTurns
         /\ \A m \in (k + 1)..Len(script) : script[m][1] \notin SlowTurns
  ELSE 0

\* C38: whenever slowSweep90 returns, found or not, the motors have been
\* stopped and both enable pins are back at full speed: the sweep PWM is in
\* effect only while a sweep is turning, every slow turn in the cycle's log
\* is followed by stopMotors before anything else drives, and every
\* moveForward, turn and obstacle maneuver runs at full speed.
C38_SweepRestoresFullSpeed ==
  /\ [](/\ enable \in {<<255, 255>>, <<80, 80>>}
        /\ enable = <<80, 80>> <=> pc = "LFT_slowSweep90"
        /\ pc = "LFT_slowSweep90" =>
             /\ log[Len(log)][1] \in SlowTurns \/ LastSlowTurn(log) = Len(log) - 1
             /\ motors \in {Pins("turnLeftSlow"), Pins("turnRightSlow")}
        /\ \A k \in 1..(Len(log) - 1) :
             log[k][1] \in SlowTurns =>
               log[k + 1][1] = "stopMotors" \/ log[k + 1][1] = "delay")
  /\ [][(pc = "LFT_slowSweep90" /\ sweep' # [sweep EXCEPT !.elapsed = sweep'.elapsed]) =>
          LET at == LastSlowTurn(log)
          IN /\ at > 0
             /\ \E k \in (at + 1)..Len(log') :
                  /\ log'[k][1] = "stopMotors"
                  /\ \A m \in (at + 1)..(k - 1) : log'[m][1] = "delay"
             /\ pc' = "LFT_loop" => /\ enable' = <<255, 255>>
                                    /\ log'[Len(log')][1] = "moveForward"]_vars

C38_Witness ==
  /\ pc = "LFT_loop" /\ called = "handleObstacle"
  /\ failedSearches = 1
  /\ enable = <<255, 255>>
  /\ Count(log, {"turnLeft", "turnRight"}) = 1

====
